---- MODULE Spec2Model ----
(***************************************************************************)
(* Model of the exam-question functions of simple-apps:                    *)
(*   - ValidateItems/comparison_function.py : compare_tables, save_to_s3   *)
(*     and the reconciliation lambda_handler                               *)
(*   - callBedrock/test_claude.py           : validate_question,           *)
(*     store_validation_result and the batch lambda_handler                *)
(*   - callBedrock/lambda_function.py       : the single-prompt handler    *)
(*   - lambda_function.py and s3-dynamodb/lambda_function.py :             *)
(*     process_csv_row of the two CSV-ingestion functions                  *)
(* Text is modelled as a sequence of one-character strings (a few opaque   *)
(* words such as "correct_option" are kept as one atom of text).           *)
(***************************************************************************)
EXTENDS Naturals, Sequences, FiniteSets, TLC

VARIABLES
    sourceTable,    \* source table: QuestionId -> item
    resultsTable,   \* results table: QuestionId -> item
    cmpOrder,       \* iteration order of all_question_ids in compare_tables
    cmpResult,      \* what compare_tables returned
    cmpDone,        \* compare_tables has returned
    vq,             \* the question record handed to validate_question
    vllm,           \* what invoke_model does for it
    vprompt,        \* the prompt validate_question sent
    vout,           \* how validate_question ended: a return or a raise
    vdone,          \* validate_question has ended
    env,            \* which environment variables of the batch handler are set
    pc,             \* position of the batch lambda_handler
    questions,      \* the items its scan returned
    replies,        \* what invoke_model and put_item did for each record so far
    outcome,        \* how the last call of validate_question ended
    validation_results,
    storage_results,
    clock,          \* datetime.now(), as a count of the writes so far
    response,       \* what the handler returned
    io,             \* the calls the invocation made to its collaborators
    event,          \* the event of the single-prompt handler
    sourceItems,    \* what the scan of the source table returned
    resultsItems,   \* what the scan of the results table returned
    comparison_results,
    output,         \* the rows written to the CSV buffer of save_to_s3
    bucket,         \* the objects put into the output bucket
    writers,        \* per concurrent batch invocation: the records it stored
    puts,           \* the items put into the results table, in order
    variant,        \* which of the two ingestion functions handles the row
    csvRow,         \* the row handed to process_csv_row
    csvItem         \* how process_csv_row ended: a return or a raise

cmpVars == <<cmpOrder, cmpResult, cmpDone>>

tableVars == <<sourceTable, resultsTable>>

valVars == <<vq, vllm, vprompt, vout, vdone>>

\* the variables of the loop of the batch handler
BatchLoopVars == <<questions, replies, outcome, validation_results,
                   storage_results, clock>>

batchVars == <<env, pc, response, BatchLoopVars>>

recVars == <<sourceItems, resultsItems, comparison_results, output, bucket>>

ioVars == <<io, event>>

storeVars == <<writers, puts>>

csvVars == <<variant, csvRow, csvItem>>

restVars == <<storeVars, csvVars>>

vars == <<tableVars, cmpVars, valVars, batchVars, recVars, ioVars, restVars>>

(***************************************************************************)
(* Bounds                                                                  *)
(***************************************************************************)
NumIds == 2
MaxKeyLen == 3
MaxOptLen == 3
MaxPad == 1

(***************************************************************************)
(* Python str operations on sequences of characters                        *)
(***************************************************************************)
Whitespace == {" ", "\n"}

LowerLetters == <<"a", "b", "c", "n", "x">>
UpperLetters == <<"A", "B", "C", "N", "X">>

UpperChar(c) ==
    IF \E i \in 1..Len(LowerLetters) : LowerLetters[i] = c
    THEN UpperLetters[CHOOSE i \in 1..Len(LowerLetters) : LowerLetters[i] = c]
    ELSE c

LowerChar(c) ==
    IF \E i \in 1..Len(UpperLetters) : UpperLetters[i] = c
    THEN LowerLetters[CHOOSE i \in 1..Len(UpperLetters) : UpperLetters[i] = c]
    ELSE c

Upper(s) == [i \in 1..Len(s) |-> UpperChar(s[i])]

Lower(s) == [i \in 1..Len(s) |-> LowerChar(s[i])]

RECURSIVE LStrip(_)
LStrip(s) ==
    IF s # <<>> /\ Head(s) \in Whitespace THEN LStrip(Tail(s)) ELSE s

RECURSIVE RStrip(_)
RStrip(s) ==
    IF s # <<>> /\ s[Len(s)] \in Whitespace
    THEN RStrip(SubSeq(s, 1, Len(s) - 1))
    ELSE s

Strip(s) == RStrip(LStrip(s))

StartsWith(s, p) == Len(p) <= Len(s) /\ SubSeq(s, 1, Len(p)) = p

EndsWith(s, p) ==
    Len(p) <= Len(s) /\ SubSeq(s, Len(s) - Len(p) + 1, Len(s)) = p

\* index of the first occurrence of sep in s, 0 when there is none
Find(s, sep) ==
    LET hits == {j \in 1..(Len(s) + 1) :
                    j + Len(sep) - 1 <= Len(s)
                    /\ SubSeq(s, j, j + Len(sep) - 1) = sep}
    IN  IF hits = {} THEN 0 ELSE CHOOSE j \in hits : \A k \in hits : j <= k

\* str.split(sep): the pieces between the non-overlapping occurrences of sep
RECURSIVE Split(_, _)
Split(s, sep) ==
    LET j == Find(s, sep)
    IN  IF j = 0
        THEN <<s>>
        ELSE <<SubSeq(s, 1, j - 1)>>
                 \o Split(SubSeq(s, j + Len(sep), Len(s)), sep)

\* dict.get(field, default) on an item
Get(item, field, default) ==
    IF field \in DOMAIN item THEN item[field] ELSE default

(***************************************************************************)
(* compare_tables                                                          *)
(***************************************************************************)
SourceDictSkipEmpty(items) ==
    [q \in {r \in DOMAIN items : Get(items[r], "Key", <<>>) # <<>>} |->
        Strip(Get(items[q], "Key", <<>>))]

\* source_dict = {item['QuestionId']: item.get('Key', '').strip() ...}
SourceDict(items) ==
    [q \in DOMAIN items |-> Strip(Get(items[q], "Key", <<>>))]

\* results_dict[qid] = correct_options[0].strip()
ResultsDict(items) ==
    [q \in DOMAIN items |->
        LET correct_options == Split(Get(items[q], "CorrectOption", <<>>), <<",">>)
        IN  IF correct_options # <<>> THEN Strip(correct_options[1]) ELSE <<>>]

\* all_options_dict[qid] = item.get('CorrectOption', '')
AllOptionsDict(items) ==
    [q \in DOMAIN items |-> Get(items[q], "CorrectOption", <<>>)]

AllQuestionIds(source_items, results_items) ==
    DOMAIN SourceDict(source_items) \cup DOMAIN ResultsDict(results_items)

EmptyComparison ==
    [matches |-> 0,
     mismatched_ids |-> <<>>,
     missing_from_table1 |-> <<>>,
     missing_from_table2 |-> <<>>,
     comparison_details |-> <<>>]

KeysMatchCaseSensitive(source_key, result_key) ==
    Strip(source_key) = Strip(result_key)

\* the two comparison values are equal after strip().upper()
KeysMatch(source_key, result_key) ==
    Upper(Strip(source_key)) = Upper(Strip(result_key))

DiagnosticOptionsAlways(all_options, matches_flag) == all_options

\* "table2_all_options": all_options if not matches_flag else ''
DiagnosticOptions(all_options, matches_flag) ==
    IF ~matches_flag THEN all_options ELSE <<>>

\* "elif source_key is None": the id has no entry in source_dict
MissingFromSourceSwapped(question_id, source_dict) ==
    question_id \in DOMAIN source_dict

MissingFromSource(question_id, source_dict) ==
    question_id \notin DOMAIN source_dict

\* one pass of the loop "for question_id in all_question_ids"
CompareOne(acc, question_id, source_dict, results_dict, all_options_dict) ==
    IF question_id \in DOMAIN source_dict /\ question_id \in DOMAIN results_dict
    THEN LET source_key == Upper(Strip(source_dict[question_id]))
             result_key == Upper(Strip(results_dict[question_id]))
             matches_flag == KeysMatch(source_dict[question_id],
                                       results_dict[question_id])
             detail == [questionid |-> question_id,
                        matches |-> matches_flag,
                        table1_key |-> source_key,
                        table2_correctoption |-> result_key,
                        table2_all_options |->
                            DiagnosticOptions(all_options_dict[question_id],
                                              matches_flag)]
         IN  [acc EXCEPT
                !.matches = IF matches_flag THEN @ + 1 ELSE @,
                !.mismatched_ids =
                    IF matches_flag THEN @ ELSE Append(@, question_id),
                !.comparison_details = Append(@, detail)]
    ELSE IF MissingFromSource(question_id, source_dict)
    THEN [acc EXCEPT !.missing_from_table1 = Append(@, question_id)]
    ELSE [acc EXCEPT !.missing_from_table2 = Append(@, question_id)]

RECURSIVE CompareLoop(_, _, _, _, _)
CompareLoop(acc, order, source_dict, results_dict, all_options_dict) ==
    IF order = <<>>
    THEN acc
    ELSE CompareLoop(
            CompareOne(acc, Head(order), source_dict, results_dict,
                       all_options_dict),
            Tail(order), source_dict, results_dict, all_options_dict)

\* the report compare_tables returns, for one iteration order of the id set
CompareTables(source_items, results_items, order) ==
    LET acc == CompareLoop(EmptyComparison, order,
                           SourceDict(source_items),
                           ResultsDict(results_items),
                           AllOptionsDict(results_items))
    IN  [matches |-> acc.matches,
         mismatches |-> Len(acc.mismatched_ids),
         mismatched_ids |-> acc.mismatched_ids,
         missing_from_table1 |-> acc.missing_from_table1,
         missing_from_table2 |-> acc.missing_from_table2,
         comparison_details |-> acc.comparison_details]

\* the orders in which "for question_id in all_question_ids" may visit a set
Orders(S) ==
    {o \in [1..Cardinality(S) -> S] : \A q \in S : \E i \in DOMAIN o : o[i] = q}

(***************************************************************************)
(* JSON text -> value (json.loads), on sequences of text atoms.  A value   *)
(* is a record: t its type, s the content of a string or the literal of a  *)
(* number / null / true / false, m the members of an object (key content   *)
(* -> value, a repeated key keeps the last), a the elements of an array.   *)
(***************************************************************************)
JStr(content) == [t |-> "str", s |-> content, m |-> <<>>, a |-> <<>>]

JLit(type, atoms) == [t |-> type, s |-> atoms, m |-> <<>>, a |-> <<>>]

JObj(members) == [t |-> "obj", s |-> <<>>, m |-> members, a |-> <<>>]

JArr(elements) == [t |-> "arr", s |-> <<>>, m |-> <<>>, a |-> elements]

JNull == JLit("null", <<"null">>)

Quote == "\""

Digits == {"0", "5"}

Literals == {"null", "true", "false"}

\* characters a JSON string may not hold unescaped
ControlChars == {"\n"}

ParseFail == [ok |-> FALSE, val |-> JNull, pos |-> 0]

ParseOk(v, next) == [ok |-> TRUE, val |-> v, pos |-> next]

\* first position >= i that holds no whitespace (Len(s) + 1 when none)
SkipWs(s, i) ==
    CHOOSE j \in i..(Len(s) + 1) :
        /\ \A k \in i..(j - 1) : s[k] \in Whitespace
        /\ (j = Len(s) + 1 \/ s[j] \notin Whitespace)

\* s[i] is an opening quote
ParseString(s, i) ==
    LET closes == {j \in (i + 1)..Len(s) : s[j] = Quote}
    IN  IF closes = {}
        THEN ParseFail
        ELSE LET j == CHOOSE c \in closes : \A d \in closes : c <= d
                 content == SubSeq(s, i + 1, j - 1)
             IN  IF \E k \in DOMAIN content : content[k] \in ControlChars
                 THEN ParseFail
                 ELSE ParseOk(JStr(content), j + 1)

\* s[i] is a digit: the number is the run of digits from i
ParseNumber(s, i) ==
    LET j == CHOOSE e \in i..Len(s) :
                /\ \A k \in i..e : s[k] \in Digits
                /\ (e = Len(s) \/ s[e + 1] \notin Digits)
    IN  ParseOk(JLit("num", SubSeq(s, i, j)), j + 1)

PutMember(members, key, v) ==
    [k \in DOMAIN members \cup {key} |-> IF k = key THEN v ELSE members[k]]

RECURSIVE ParseValue(_, _)
RECURSIVE ParseMembers(_, _, _)
RECURSIVE ParseElements(_, _, _)

ParseValue(s, i) ==
    IF i > Len(s) THEN ParseFail
    ELSE IF s[i] = Quote THEN ParseString(s, i)
    ELSE IF s[i] = "{"
    THEN LET j == SkipWs(s, i + 1)
         IN  IF j <= Len(s) /\ s[j] = "}"
             THEN ParseOk(JObj(<<>>), j + 1)
             ELSE ParseMembers(s, j, <<>>)
    ELSE IF s[i] = "["
    THEN LET j == SkipWs(s, i + 1)
         IN  IF j <= Len(s) /\ s[j] = "]"
             THEN ParseOk(JArr(<<>>), j + 1)
             ELSE ParseElements(s, j, <<>>)
    ELSE IF s[i] \in Digits THEN ParseNumber(s, i)
    ELSE IF s[i] \in Literals
    THEN ParseOk(JLit(IF s[i] = "null" THEN "null" ELSE "bool", <<s[i]>>),
                 i + 1)
    ELSE ParseFail

\* "key" : value , ... }   from position i, members holding what came before
ParseMembers(s, i, members) ==
    IF i > Len(s) \/ s[i] # Quote THEN ParseFail
    ELSE LET k == ParseString(s, i)
         IN  IF ~k.ok THEN ParseFail
             ELSE LET c == SkipWs(s, k.pos)
                  IN  IF c > Len(s) \/ s[c] # ":" THEN ParseFail
                      ELSE LET v == ParseValue(s, SkipWs(s, c + 1))
                           IN  IF ~v.ok THEN ParseFail
                               ELSE LET e == SkipWs(s, v.pos)
                                        m2 == PutMember(members, k.val.s, v.val)
                                    IN  IF e > Len(s) THEN ParseFail
                                        ELSE IF s[e] = "}"
                                        THEN ParseOk(JObj(m2), e + 1)
                                        ELSE IF s[e] = ","
                                        THEN ParseMembers(s, SkipWs(s, e + 1), m2)
                                        ELSE ParseFail

\* value , ... ]   from position i, elements holding what came before
ParseElements(s, i, elements) ==
    LET v == ParseValue(s, i)
    IN  IF ~v.ok THEN ParseFail
        ELSE LET e == SkipWs(s, v.pos)
                 a2 == Append(elements, v.val)
             IN  IF e > Len(s) THEN ParseFail
                 ELSE IF s[e] = "]" THEN ParseOk(JArr(a2), e + 1)
                 ELSE IF s[e] = ","
                 THEN ParseElements(s, SkipWs(s, e + 1), a2)
                 ELSE ParseFail

\* json.loads(text): one value, whitespace around it, nothing else;
\* ok = FALSE stands for json.JSONDecodeError
JsonLoads(text) ==
    LET v == ParseValue(text, SkipWs(text, 1))
    IN  IF v.ok /\ SkipWs(text, v.pos) > Len(text) THEN v ELSE ParseFail

(***************************************************************************)
(* validate_question                                                       *)
(***************************************************************************)
\* one backtick (SANY reads no backtick inside a string)
Backtick == "<bt>"

Fence == <<Backtick, Backtick, Backtick>>

FenceJson == Fence \o <<"json">>

Letters == <<"A", "B", "C", "D", "E", "F">>

ResponseField(k) == "Response" \o k

NotNanCaseSensitive(v) == v # <<"n", "a", "n">>

\* v.lower() != 'nan'
NotNan(v) == Lower(v) # <<"n", "a", "n">>

\* "if v and v.strip() and v.lower() != 'nan'"
ValidAnswer(v) == v # <<>> /\ Strip(v) # <<>> /\ NotNan(v)

\* answers = {'A': question.get('ResponseA', ''), ...}
Answers(question) ==
    [i \in 1..Len(Letters) |-> Get(question, ResponseField(Letters[i]), <<>>)]

\* valid_answers, as the letters kept, in the order of the dict
ValidLetters(question) ==
    SelectSeq(Letters,
              LAMBDA k : ValidAnswer(Get(question, ResponseField(k), <<>>)))

\* "\n".join(lines)
RECURSIVE Join(_, _)
Join(lines, sep) ==
    IF lines = <<>> THEN <<>>
    ELSE IF Len(lines) = 1 THEN lines[1]
    ELSE lines[1] \o sep \o Join(Tail(lines), sep)

\* f"{k}) {v}"
AnswerLine(question, k) ==
    <<k, ")", " ">> \o Get(question, ResponseField(k), <<>>)

AnswersText(question) ==
    LET kept == ValidLetters(question)
    IN  Join([i \in 1..Len(kept) |-> AnswerLine(question, kept[i])], <<"\n">>)

PromptHead == "As an AWS certification expert, ... Question: "

PromptOptions == "\n\nOptions:\n"

PromptTail == "\n\nRespond ONLY with a JSON object in this exact format ..."

Prompt(question) ==
    <<PromptHead>> \o Get(question, "Question", <<>>) \o <<PromptOptions>>
        \o AnswersText(question) \o <<PromptTail>>

\* "Clean the response text": strip, drop a leading ```json, a trailing ```
CleanText(text) ==
    LET t0 == Strip(text)
        t1 == IF StartsWith(t0, FenceJson) THEN Split(t0, FenceJson)[2] ELSE t0
        t2 == IF EndsWith(t1, Fence) THEN Split(t1, Fence)[1] ELSE t1
    IN  Strip(t2)

RequiredFields == <<"correct_option", "explanation", "confidence">>

\* the types on which "field in claude_answer" does not raise TypeError
Containers == {"obj", "arr", "str"}

\* "field in claude_answer": a key of a dict, an element of a list, a
\* substring of a str
Contains(v, field) ==
    IF v.t = "obj" THEN <<field>> \in DOMAIN v.m
    ELSE IF v.t = "arr"
    THEN \E i \in DOMAIN v.a : v.a[i].t = "str" /\ v.a[i].s = <<field>>
    ELSE Find(v.s, <<field>>) # 0

HasRequiredFields(v) ==
    \A i \in DOMAIN RequiredFields : Contains(v, RequiredFields[i])

Return(value) == [kind |-> "return", value |-> value]

Raise(msg) == [kind |-> "raise", exc |-> msg]

SuccessResult(question, claude_answer) ==
    [questionId |-> Get(question, "QuestionId", <<>>),
     question |-> Get(question, "Question", <<>>),
     validation |-> claude_answer,
     status |-> "success"]

ParseErrorResultUnknown(question) ==
    [questionId |-> Get(question, "QuestionId", <<>>),
     question |-> Get(question, "Question", <<>>),
     validation |-> JObj(<<>>),
     status |-> "error"]

\* the result returned by "except json.JSONDecodeError as je"
ParseErrorResult(question) ==
    [questionId |-> Get(question, "QuestionId", <<>>),
     question |-> Get(question, "Question", <<>>),
     validation |->
        JObj(PutMember(PutMember(PutMember(<<>>,
            <<"correct_option">>, JStr(<<"ERROR">>)),
            <<"explanation">>,
                JStr(<<"Failed to parse response: ", "JSONDecodeError">>)),
            <<"confidence">>, JStr(<<"LOW">>))),
     status |-> "error"]

\* the result returned by the outer "except Exception as e"
ExceptionResult(question, msg) ==
    [questionId |-> Get(question, "QuestionId", <<>>),
     status |-> "error",
     error |-> msg]

\* the body of the outer try: what it returns, or the exception it raises
ValidateBody(question, llm) ==
    IF llm.kind # "text"
    THEN Raise(llm.msg)
    ELSE LET response_text == CleanText(llm.text)
             parsed == JsonLoads(response_text)
         IN  IF ~parsed.ok
             THEN Return(ParseErrorResult(question))
             ELSE IF parsed.val.t \notin Containers
             THEN Raise("TypeError: argument is not iterable")
             ELSE IF ~HasRequiredFields(parsed.val)
             THEN Raise("Missing required fields in response")
             ELSE Return(SuccessResult(question, parsed.val))

ValidateQuestionUncaught(question, llm) == ValidateBody(question, llm)

\* validate_question: the try body under "except Exception"
ValidateQuestion(question, llm) ==
    LET body == ValidateBody(question, llm)
    IN  IF body.kind = "raise"
        THEN Return(ExceptionResult(question, body.exc))
        ELSE body

(***************************************************************************)
(* Inputs of the reconciliation                                            *)
(***************************************************************************)
QuestionIds == 1..NumIds

Str(n, alphabet) == UNION {[1..k -> alphabet] : k \in 0..n}

\* a few Key / CorrectOption values, one per case of the normalisation
SampleValues ==
    {<<>>, <<"A">>, <<"b", " ">>, <<" ">>, <<"B", ",", "C">>}

KeyAlphabet == {"b", "B", "C", " ", ","}

SourceItem(q, v) ==
    IF v = <<"absent">> THEN [QuestionId |-> q]
    ELSE [QuestionId |-> q, Key |-> v]

ResultItem(q, v) ==
    IF v = <<"absent">> THEN [QuestionId |-> q]
    ELSE [QuestionId |-> q, CorrectOption |-> v]

\* the tables over the ids Q whose comparison field is absent or in Values
SourceTables(Q, Values) ==
    UNION {{[q \in S |-> SourceItem(q, f[q])] :
                f \in [S -> Values \cup {<<"absent">>}]} : S \in SUBSET Q}

ResultsTables(Q, Values) ==
    UNION {{[q \in S |-> ResultItem(q, f[q])] :
                f \in [S -> Values \cup {<<"absent">>}]} : S \in SUBSET Q}

(***************************************************************************)
(* Inputs of validate_question                                             *)
(***************************************************************************)
\* a question record: QuestionId, Question and the Response fields in opts
Question(q, opts) ==
    [f \in {"QuestionId", "Question"}
              \cup {ResponseField(k) : k \in DOMAIN opts} |->
        IF f = "QuestionId" THEN q
        ELSE IF f = "Question" THEN <<"q">>
        ELSE opts[CHOOSE k \in DOMAIN opts : ResponseField(k) = f]]

LetterSet == {Letters[i] : i \in DOMAIN Letters}

OptAlphabet == {"n", "a", "N", " ", "x"}

SampleOptions == {<<>>, <<"n", "a", "n">>, <<"x">>}

\* every letter absent or one of the samples; or one letter any short
\* text and the others "x"
PromptQuestions ==
    UNION {{Question(1, opts) : opts \in [S -> SampleOptions]} :
              S \in SUBSET LetterSet}
    \cup {Question(1, [k \in LetterSet |-> IF k = v THEN t ELSE <<"x">>]) :
              v \in LetterSet, t \in Str(MaxOptLen, OptAlphabet)}

PlainQuestions ==
    {Question(q, [k \in {"A", "B"} |-> <<"x">>]) : q \in QuestionIds}

\* the raw text of a string, of a member and of an object
JsonString(content) == <<Quote>> \o content \o <<Quote>>

Member(key, content) ==
    JsonString(<<key>>) \o <<":">> \o JsonString(content)

\* {"correct_option":"<co>","explanation":"<ex>","confidence":"HIGH"} with
\* only the fields of the set keep
ObjectText(keep, co, ex) ==
    LET all == <<Member("correct_option", co), Member("explanation", ex),
                 Member("confidence", <<"HIGH">>)>>
        kept == SelectSeq(<<1, 2, 3>>, LAMBDA i : RequiredFields[i] \in keep)
    IN  <<"{">> \o Join([i \in 1..Len(kept) |-> all[kept[i]]], <<",", " ">>)
            \o <<"}">>

Options == {<<"A">>, <<"B">>}

Explanations == {<<"x">>, <<"see", " ">> \o Fence \o <<"x">> \o Fence}

FieldSet == {RequiredFields[i] : i \in DOMAIN RequiredFields}

ObjectTexts ==
    {ObjectText(keep, co, ex) :
        keep \in SUBSET FieldSet, co \in Options, ex \in Explanations}

\* other payloads: prose, nothing, other JSON values, a cut-off object, an
\* object followed by prose
OtherTexts ==
    {<<"I", " ", "think", " ", "A">>,
     <<>>,
     <<"[", "]">>,
     <<"[">> \o JsonString(<<"correct_option">>) \o <<",">>
            \o JsonString(<<"explanation">>) \o <<",">>
            \o JsonString(<<"confidence">>) \o <<"]">>,
     JsonString(<<"correct_option", " ", "explanation", " ", "confidence">>),
     JsonString(<<"A">>),
     <<"5">>,
     <<"null">>,
     <<"{">> \o Member("correct_option", <<"A">>),
     ObjectText(FieldSet, <<"A">>, <<"x">>) \o <<" ", "ok">>}

Pads == Str(MaxPad, {"\n"})

Wraps == {"none", "json", "lead", "trail", "bare"}

\* a payload as the model may wrap it in fences and whitespace
Wrap(w, body, pad) ==
    IF w = "json" THEN pad \o FenceJson \o pad \o body \o pad \o Fence \o pad
    ELSE IF w = "lead" THEN pad \o FenceJson \o pad \o body \o pad
    ELSE IF w = "trail" THEN pad \o body \o pad \o Fence \o pad
    ELSE IF w = "bare" THEN pad \o Fence \o pad \o body \o pad \o Fence \o pad
    ELSE pad \o body \o pad

TextReply(text) == [kind |-> "text", text |-> text]

\* invoke_model raises
InvokeFailures ==
    {[kind |-> "invoke_raises", msg |-> "ThrottlingException"]}

\* the response is no envelope {"content": [{"text": ...}]}
EnvelopeFailures ==
    {[kind |-> "bad_envelope", msg |-> "JSONDecodeError in response body"],
     [kind |-> "bad_envelope", msg |-> "KeyError: 'content'"],
     [kind |-> "bad_envelope", msg |-> "IndexError: list index out of range"],
     [kind |-> "bad_envelope", msg |-> "KeyError: 'text'"]}

Replies ==
    InvokeFailures \cup EnvelopeFailures
    \cup {TextReply(Wrap(w, body, pad)) :
            w \in Wraps, body \in ObjectTexts \cup OtherTexts, pad \in Pads}

\* one reply of each kind
SampleReplies ==
    InvokeFailures
    \cup {[kind |-> "bad_envelope", msg |-> "KeyError: 'content'"],
          TextReply(<<"I", " ", "think", " ", "A">>),
          TextReply(<<"5">>),
          TextReply(<<"[">> \o JsonString(<<"correct_option">>) \o <<",">>
                        \o JsonString(<<"explanation">>) \o <<",">>
                        \o JsonString(<<"confidence">>) \o <<"]">>),
          TextReply(ObjectText({"correct_option"}, <<"A">>, <<"x">>)),
          TextReply(Wrap("json", ObjectText(FieldSet, <<"A">>, <<"x">>), <<"\n">>))}

NoOutcome == Raise("not called")

NoResponse == [statusCode |-> 0]

CompareIdle ==
    /\ cmpOrder = <<>>
    /\ cmpResult = CompareTables(<<>>, <<>>, <<>>)
    /\ cmpDone = TRUE

\* no concurrent writers and no ingestion
RestIdle ==
    /\ writers = <<>>
    /\ puts = <<>>
    /\ variant = "none"
    /\ csvRow = <<>>
    /\ csvItem = NoOutcome

\* the loop of the batch handler has not run
BatchLoopIdle ==
    /\ questions = <<>>
    /\ replies = <<>>
    /\ outcome = NoOutcome
    /\ validation_results = <<>>
    /\ storage_results = <<>>
    /\ clock = 0

\* no handler is invoked
BatchIdle ==
    /\ env = [TABLE_NAME |-> TRUE, LLM_RESULTS_TABLE |-> TRUE]
    /\ pc = "done"
    /\ BatchLoopIdle
    /\ response = NoResponse
    /\ io = <<>>
    /\ RestIdle
    /\ event = <<>>

ReconcileIdle ==
    /\ sourceItems = <<>>
    /\ resultsItems = <<>>
    /\ comparison_results = CompareTables(<<>>, <<>>, <<>>)
    /\ output = <<>>
    /\ bucket = {}

ValidateIdle ==
    /\ vq = Question(1, <<>>)
    /\ vllm = TextReply(<<>>)
    /\ vprompt = <<>>
    /\ vout = NoOutcome
    /\ vdone = TRUE

InitValidate ==
    /\ sourceTable = <<>>
    /\ resultsTable = <<>>
    /\ CompareIdle
    /\ BatchIdle
    /\ ReconcileIdle
    /\ vq \in PlainQuestions
    /\ vllm \in Replies
    /\ vprompt = <<>>
    /\ vout = NoOutcome
    /\ vdone = FALSE

InitPrompt ==
    /\ sourceTable = <<>>
    /\ resultsTable = <<>>
    /\ CompareIdle
    /\ BatchIdle
    /\ ReconcileIdle
    /\ vq \in PromptQuestions
    /\ vllm \in {TextReply(ObjectText(FieldSet, <<"A">>, <<"x">>))}
                    \cup InvokeFailures
    /\ vprompt = <<>>
    /\ vout = NoOutcome
    /\ vdone = FALSE

\* one call of validate_question
Validate ==
    /\ ~vdone
    /\ vprompt' = Prompt(vq)
    /\ vout' = ValidateQuestion(vq, vllm)
    /\ vdone' = TRUE
    /\ UNCHANGED <<vq, vllm, tableVars, cmpVars, batchVars, recVars, ioVars, restVars>>

NextValidate == Validate

SpecValidate == InitValidate /\ [][NextValidate]_vars

SpecPrompt == InitPrompt /\ [][NextValidate]_vars

InitCompare ==
    /\ sourceTable \in SourceTables(QuestionIds, SampleValues)
    /\ resultsTable \in ResultsTables(QuestionIds, SampleValues)
    /\ cmpOrder = <<>>
    /\ cmpResult = CompareTables(<<>>, <<>>, <<>>)
    /\ cmpDone = FALSE
    /\ ValidateIdle
    /\ BatchIdle
    /\ ReconcileIdle

InitCompareValues ==
    /\ sourceTable \in SourceTables({1}, Str(MaxKeyLen, KeyAlphabet))
    /\ resultsTable \in ResultsTables({1}, Str(MaxKeyLen, KeyAlphabet))
    /\ DOMAIN sourceTable = {1}
    /\ DOMAIN resultsTable = {1}
    /\ cmpOrder = <<>>
    /\ cmpResult = CompareTables(<<>>, <<>>, <<>>)
    /\ cmpDone = FALSE
    /\ ValidateIdle
    /\ BatchIdle
    /\ ReconcileIdle

\* compare_tables: scan both tables, walk the union of the ids
Compare ==
    /\ ~cmpDone
    /\ \E order \in Orders(AllQuestionIds(sourceTable, resultsTable)) :
          /\ cmpOrder' = order
          /\ cmpResult' = CompareTables(sourceTable, resultsTable, order)
    /\ cmpDone' = TRUE
    /\ UNCHANGED <<tableVars, valVars, batchVars, recVars, ioVars, restVars>>

NextCompare == Compare

SpecCompare == InitCompare /\ [][NextCompare]_vars

SpecCompareValues == InitCompareValues /\ [][NextCompare]_vars

(***************************************************************************)
(* store_validation_result and the batch lambda_handler (test_claude.py)   *)
(***************************************************************************)
\* the attribute written for a JSON value: a string as its text
AttrOf(v) == IF v.t = "str" THEN v.s ELSE v

\* validation.get(field, default)
ValidationGet(validation, field, default) ==
    IF <<field>> \in DOMAIN validation.m
    THEN AttrOf(validation.m[<<field>>])
    ELSE default

\* the item store_validation_result prepares; result.get('validation', {})
StoredItem(result, now) ==
    LET validation == Get(result, "validation", JObj(<<>>))
    IN  [QuestionId |-> result.questionId,
         CorrectOption |-> ValidationGet(validation, "correct_option",
                                         <<"UNKNOWN">>),
         Explanation |-> ValidationGet(validation, "explanation", <<>>),
         Confidence |-> ValidationGet(validation, "confidence", <<"LOW">>),
         ValidationStatus |-> Get(result, "status", "error"),
         ProcessedAt |-> now,
         QuestionText |-> Get(result, "question", <<>>)]

\* validation.get raises AttributeError unless validation is a dict
CanPrepareItem(result) == Get(result, "validation", JObj(<<>>)).t = "obj"

StoredDespitePutFailure(result, putOk) == CanPrepareItem(result)

\* store_validation_result returns True: the item was prepared and put
Stored(result, putOk) == CanPrepareItem(result) /\ putOk

PutItemKeepFirst(table, item) ==
    [q \in DOMAIN table \cup {item.QuestionId} |->
        IF q \in DOMAIN table THEN table[q] ELSE item]

\* table.put_item(Item=item): upsert by QuestionId
PutItem(table, item) ==
    [q \in DOMAIN table \cup {item.QuestionId} |->
        IF q = item.QuestionId THEN item ELSE table[q]]

ConfigError(msg) ==
    [statusCode |-> 400, message |-> "Configuration error", error |-> msg]

InternalErrorAs400(msg) ==
    [statusCode |-> 400, message |-> "Internal server error", error |-> msg]

InternalError(msg) ==
    [statusCode |-> 500, message |-> "Internal server error", error |-> msg]

\* a call to a collaborator that returned, and one that raised
Call(op) == [op |-> op, error |-> ""]

Failed(op, msg) == [op |-> op, error |-> msg]

\* the errors a table.scan may raise
ScanErrors ==
    {"ClientError: ResourceNotFoundException",
     "ClientError: ProvisionedThroughputExceededException"}

\* the page sizes of a scan: table.scan returns the first page of the
\* table, which is all of it only if the table fits in one page
PageSizes == 1..NumIds

Min(a, b) == IF a < b THEN a ELSE b

\* response.get('Items', []) of one table.scan call: the items of the first
\* page, for the order in which the table delivers its items
ScanItems(table, order, page) ==
    [i \in 1..Min(page, Len(order)) |-> table[order[i]]]

\* "if not SOURCE_TABLE_NAME" / "if not RESULTS_TABLE_NAME", then the scan
HandlerStart ==
    /\ pc = "idle"
    /\ IF ~env.TABLE_NAME
       THEN /\ response' =
                 ConfigError("TABLE_NAME environment variable is not set")
            /\ pc' = "done"
            /\ UNCHANGED <<questions, io>>
       ELSE IF ~env.LLM_RESULTS_TABLE
       THEN /\ response' =
                 ConfigError("LLM_RESULTS_TABLE environment variable is not set")
            /\ pc' = "done"
            /\ UNCHANGED <<questions, io>>
       ELSE \/ \E e \in ScanErrors :
                     /\ io' = Append(io, Failed("scan", e))
                     /\ response' = InternalError(e)
                     /\ pc' = "done"
                     /\ UNCHANGED questions
               \/ \E order \in Orders(DOMAIN sourceTable),
                     page \in PageSizes :
                     /\ io' = Append(io, Call("scan"))
                     /\ questions' = ScanItems(sourceTable, order, page)
                     /\ pc' = "loop"
                     /\ UNCHANGED response
    /\ UNCHANGED <<tableVars, cmpVars, valVars, env, replies, outcome,
                   validation_results, storage_results, clock, recVars,
                   event, restVars>>

\* client.invoke_model for a reply, table.put_item for its outcome
InvokeCall(llm) ==
    IF llm.kind = "invoke_raises" THEN Failed("invoke_model", llm.msg)
    ELSE Call("invoke_model")

PutCall(putOk) ==
    IF putOk THEN Call("put_item") ELSE Failed("put_item", "ClientError")

\* one pass of "for question in questions": validate, then store
HandlerStep ==
    /\ pc = "loop"
    /\ Len(validation_results) < Len(questions)
    /\ \E llm \in SampleReplies, putOk \in BOOLEAN :
          /\ outcome' = ValidateQuestion(
                            questions[Len(validation_results) + 1], llm)
          /\ IF outcome'.kind = "raise"
             THEN /\ response' = InternalError(outcome'.exc)
                  /\ pc' = "done"
                  /\ io' = Append(io, InvokeCall(llm))
                  /\ UNCHANGED <<resultsTable, replies, validation_results,
                                 storage_results, clock>>
             ELSE /\ replies' =
                        Append(replies, [llm |-> llm, putOk |-> putOk])
                  /\ validation_results' =
                        Append(validation_results, outcome'.value)
                  /\ resultsTable' =
                        IF Stored(outcome'.value, putOk)
                        THEN PutItem(resultsTable,
                                     StoredItem(outcome'.value, clock))
                        ELSE resultsTable
                  /\ clock' = clock + 1
                  /\ storage_results' =
                        Append(storage_results,
                               [questionId |-> outcome'.value.questionId,
                                stored |-> Stored(outcome'.value, putOk)])
                  /\ io' = IF CanPrepareItem(outcome'.value)
                           THEN io \o <<InvokeCall(llm), PutCall(putOk)>>
                           ELSE Append(io, InvokeCall(llm))
                  /\ UNCHANGED <<pc, response>>
    /\ UNCHANGED <<sourceTable, cmpVars, valVars, env, questions, recVars,
                   event, restVars>>

\* after the loop: the 200 response
HandlerFinish ==
    /\ pc = "loop"
    /\ Len(validation_results) = Len(questions)
    /\ response' = [statusCode |-> 200,
                    message |-> "Questions validated and stored",
                    total_questions |-> Len(questions),
                    validation_results |-> validation_results,
                    storage_results |-> storage_results]
    /\ pc' = "done"
    /\ UNCHANGED <<tableVars, cmpVars, valVars, env, questions, replies,
                   outcome, validation_results, storage_results, clock,
                   recVars, ioVars, restVars>>

\* the source table of the batch: any set of the questions
QuestionTables ==
    {[q \in S |-> Question(q, [k \in {"A", "B"} |-> <<"x">>])] :
        S \in SUBSET QuestionIds}

Init ==
    /\ sourceTable \in QuestionTables
    /\ resultsTable = <<>>
    /\ CompareIdle
    /\ ValidateIdle
    /\ ReconcileIdle
    /\ env \in [TABLE_NAME : BOOLEAN, LLM_RESULTS_TABLE : BOOLEAN]
    /\ pc = "idle"
    /\ BatchLoopIdle
    /\ response = NoResponse
    /\ io = <<>>
    /\ RestIdle
    /\ event = <<>>

Next == HandlerStart \/ HandlerStep \/ HandlerFinish

Spec == Init /\ [][Next]_vars

(***************************************************************************)
(* save_to_s3 and the reconciliation lambda_handler                        *)
(* (comparison_function.py)                                                *)
(***************************************************************************)
\* the scanned items as the dicts of compare_tables index them, by
\* item['QuestionId']
ById(items) ==
    [q \in {items[i].QuestionId : i \in DOMAIN items} |->
        items[CHOOSE i \in DOMAIN items : items[i].QuestionId = q]]

\* csv.writer writes a bool as str(bool)
BoolCell(b) == IF b THEN <<"True">> ELSE <<"False">>

CsvHeader ==
    <<"QuestionId", "Matches", "Table1_Key", "Table2_CorrectOption",
      "Table2_All_Options", "Status">>

\* the row written for one entry of comparison_details
DetailRow(detail) ==
    <<detail.questionid,
      BoolCell(detail.matches),
      detail.table1_key,
      detail.table2_correctoption,
      Get(detail, "table2_all_options", <<>>),
      IF detail.matches THEN "Match" ELSE "Mismatch">>

\* the row written for an id of missing_from_table1 / missing_from_table2
MissingRow(question_id, table1, table2, status) ==
    <<question_id, "N/A", table1, table2, status>>

\* the rows save_to_s3 writes to its buffer, the header first
CsvRows(results) ==
    <<CsvHeader>>
    \o [i \in DOMAIN results.comparison_details |->
            DetailRow(results.comparison_details[i])]
    \o [i \in DOMAIN results.missing_from_table1 |->
            MissingRow(results.missing_from_table1[i],
                       "MISSING", "EXISTS", "Missing from Table 1")]
    \o [i \in DOMAIN results.missing_from_table2 |->
            MissingRow(results.missing_from_table2[i],
                       "EXISTS", "MISSING", "Missing from Table 2")]

\* f'comparison_results_{timestamp}.csv'
FileName(now) == <<"comparison_results_", now, ".csv">>

EnvCompleteButBucket(e) == e.SOURCE_TABLE /\ e.RESULTS_TABLE

\* "if not all([SOURCE_TABLE, RESULTS_TABLE, OUTPUT_BUCKET])"
EnvComplete(e) == \A name \in DOMAIN e : e[name]

\* the environment check, then the scan of the source table
ReconcileStart ==
    /\ pc = "rec_idle"
    /\ IF ~EnvComplete(env)
       THEN /\ response' =
                 ConfigError("Required environment variables are not set")
            /\ pc' = "done"
            /\ UNCHANGED <<sourceItems, io>>
       ELSE \/ \E e \in ScanErrors :
                     /\ io' = Append(io, Failed("scan", e))
                     /\ response' = InternalError(e)
                     /\ pc' = "done"
                     /\ UNCHANGED sourceItems
               \/ \E order \in Orders(DOMAIN sourceTable),
                     page \in PageSizes :
                     /\ io' = Append(io, Call("scan"))
                     /\ sourceItems' = ScanItems(sourceTable, order, page)
                     /\ pc' = "rec_results"
                     /\ UNCHANGED response
    /\ UNCHANGED <<tableVars, cmpVars, valVars, env, BatchLoopVars,
                   resultsItems, comparison_results, output, bucket, event, restVars>>

\* the scan of the results table, then the comparison
ReconcileCompare ==
    /\ pc = "rec_results"
    /\ \/ \E e \in ScanErrors :
             /\ io' = Append(io, Failed("scan", e))
             /\ response' = InternalError(e)
             /\ pc' = "done"
             /\ UNCHANGED <<resultsItems, comparison_results>>
       \/ \E order \in Orders(DOMAIN resultsTable), page \in PageSizes :
             /\ io' = Append(io, Call("scan"))
             /\ resultsItems' = ScanItems(resultsTable, order, page)
             /\ \E ids \in Orders(AllQuestionIds(ById(sourceItems),
                                                 ById(resultsItems'))) :
                   comparison_results' =
                       CompareTables(ById(sourceItems), ById(resultsItems'),
                                     ids)
             /\ pc' = "rec_save"
             /\ UNCHANGED response
    /\ UNCHANGED <<tableVars, cmpVars, valVars, env, BatchLoopVars,
                   sourceItems, output, bucket, event, restVars>>

\* save_to_s3, then the 200 response
ReconcileSave ==
    /\ pc = "rec_save"
    /\ output' = CsvRows(comparison_results)
    /\ \/ /\ io' = Append(io, Failed("put_object", "ClientError: NoSuchBucket"))
          /\ response' = InternalError("ClientError: NoSuchBucket")
          /\ UNCHANGED bucket
       \/ /\ io' = Append(io, Call("put_object"))
          /\ bucket' = bucket \cup {[Key |-> FileName(clock),
                                     Body |-> output']}
          /\ response' = [statusCode |-> 200,
                          message |-> "Comparison completed successfully",
                          results |-> comparison_results,
                          output_file |-> FileName(clock)]
    /\ pc' = "done"
    /\ UNCHANGED <<tableVars, cmpVars, valVars, env, BatchLoopVars,
                   sourceItems, resultsItems, comparison_results, event, restVars>>

\* the tables of a reconciliation run
ReconcileValues == {<<"A">>, <<"B", ",", "C">>}

ReconcileEnvs ==
    [SOURCE_TABLE : BOOLEAN, RESULTS_TABLE : BOOLEAN, OUTPUT_BUCKET : BOOLEAN]

InitReconcile ==
    /\ sourceTable \in
          {t \in SourceTables(QuestionIds, {<<"A">>}) :
              \A q \in DOMAIN t : "Key" \in DOMAIN t[q]}
    /\ resultsTable \in
          {t \in ResultsTables(QuestionIds, ReconcileValues) :
              \A q \in DOMAIN t : "CorrectOption" \in DOMAIN t[q]}
    /\ CompareIdle
    /\ ValidateIdle
    /\ ReconcileIdle
    /\ BatchLoopIdle
    /\ env \in ReconcileEnvs
    /\ pc = "rec_idle"
    /\ response = NoResponse
    /\ io = <<>>
    /\ RestIdle
    /\ event = <<>>

NextReconcile == ReconcileStart \/ ReconcileCompare \/ ReconcileSave

SpecReconcile == InitReconcile /\ [][NextReconcile]_vars

(***************************************************************************)
(* The single-prompt lambda_handler (callBedrock/lambda_function.py)       *)
(***************************************************************************)
\* what get_claude_response returns: the text of the model, or the error
\* of a failed call
ClaudeResults ==
    {[statusCode |-> 200, response |-> <<"A">>],
     [statusCode |-> 200, response |-> <<>>],
     [statusCode |-> 500, error |-> "ThrottlingException"]}

\* "if 'prompt' not in event", then the model call and the response
PromptHandler ==
    /\ pc = "prompt_idle"
    /\ IF "prompt" \notin DOMAIN event
       THEN /\ response' = [statusCode |-> 400,
                            message |-> "Invalid input",
                            error |-> "No prompt provided in event"]
            /\ UNCHANGED io
       ELSE \E result \in ClaudeResults :
               /\ io' = Append(io,
                      IF "error" \in DOMAIN result
                      THEN Failed("invoke_model", result.error)
                      ELSE Call("invoke_model"))
               /\ response' =
                      [statusCode |-> Get(result, "statusCode", 500),
                       message |-> "Successfully processed prompt",
                       response |-> Get(result, "response", <<>>),
                       error |-> Get(result, "error", "None")]
    /\ pc' = "done"
    /\ UNCHANGED <<tableVars, cmpVars, valVars, env, BatchLoopVars, recVars,
                   event, restVars>>

\* the events of a direct call: with or without a prompt
Events ==
    {<<>>, [prompt |-> <<"p">>], [prompt |-> <<>>], [question |-> <<"p">>]}

InitPromptHandler ==
    /\ sourceTable = <<>>
    /\ resultsTable = <<>>
    /\ CompareIdle
    /\ ValidateIdle
    /\ ReconcileIdle
    /\ BatchLoopIdle
    /\ env = <<>>
    /\ pc = "prompt_idle"
    /\ response = NoResponse
    /\ io = <<>>
    /\ RestIdle
    /\ event \in Events

\* one invocation of any of the three handlers
InitHandlers == Init \/ InitReconcile \/ InitPromptHandler

NextHandlers == Next \/ NextReconcile \/ PromptHandler

SpecHandlers == InitHandlers /\ [][NextHandlers]_vars

(***************************************************************************)
(* Concurrent batch invocations writing to the results table               *)
(***************************************************************************)
\* two invocations of the batch handler that run at the same time
Writers == {"first", "second"}

\* the model replies of the concurrent runs: an answer and a failed call
StoreReplies ==
    InvokeFailures
    \cup {TextReply(ObjectText(FieldSet, <<"A">>, <<"x">>))}

\* all questions are in the source table
FullQuestionTable ==
    [q \in QuestionIds |-> Question(q, [k \in {"A", "B"} |-> <<"x">>])]

\* one pass of the loop of one invocation: validate_question, then
\* store_validation_result, whose put_item is one atomic upsert
StoreResult ==
    \E w \in Writers :
        /\ writers[w] < NumIds
        /\ \E llm \in StoreReplies, putOk \in BOOLEAN :
              /\ outcome' = ValidateQuestion(sourceTable[writers[w] + 1], llm)
              /\ resultsTable' =
                    IF Stored(outcome'.value, putOk)
                    THEN PutItem(resultsTable,
                                 StoredItem(outcome'.value, clock))
                    ELSE resultsTable
              /\ puts' =
                    IF Stored(outcome'.value, putOk)
                    THEN Append(puts, StoredItem(outcome'.value, clock))
                    ELSE puts
        /\ writers' = [writers EXCEPT ![w] = @ + 1]
        /\ clock' = clock + 1
        /\ UNCHANGED <<sourceTable, cmpVars, valVars, env, pc, response,
                       questions, replies, validation_results,
                       storage_results, recVars, ioVars, csvVars>>

InitStore ==
    /\ sourceTable = FullQuestionTable
    /\ resultsTable = <<>>
    /\ CompareIdle
    /\ ValidateIdle
    /\ ReconcileIdle
    /\ BatchLoopIdle
    /\ env = [TABLE_NAME |-> TRUE, LLM_RESULTS_TABLE |-> TRUE]
    /\ pc = "loop"
    /\ response = NoResponse
    /\ io = <<>>
    /\ event = <<>>
    /\ writers = [w \in Writers |-> 0]
    /\ puts = <<>>
    /\ variant = "none"
    /\ csvRow = <<>>
    /\ csvItem = NoOutcome

NextStore == StoreResult

SpecStore == InitStore /\ [][NextStore]_vars

\* the elements of a sequence
SeqSet(s) == {s[i] : i \in DOMAIN s}

(***************************************************************************)
(* process_csv_row of the two CSV-ingestion functions                      *)
(* (lambda_function.py and s3-dynamodb/lambda_function.py)                 *)
(***************************************************************************)
Variants == {"lambda_function", "s3-dynamodb"}

\* the columns read with row['...'] in both variants
RequiredColumns == <<"QuestionId", "Type", "Status", "Question", "Key">>

\* the other item fields and the column each is read from; the two
\* variants spell the column of Tag differently
OptionalFields ==
    <<"Notes", "Rationale", "CreatedDate", "CreatedBy",
      "ResponseA", "ResponseB", "ResponseC", "ResponseD", "ResponseE",
      "ResponseF", "RationaleA", "RationaleB", "RationaleC", "RationaleD",
      "RationaleE", "RationaleF", "Topic", "Knowledge", "Tag">>

OptionalColumns(v) ==
    <<"Notes", "Rationale", "Created Date", "Created By",
      "Response A", "Response B", "Response C", "Response D", "Response E",
      "Response F", "Rationale A", "Rationale B", "Rationale C",
      "Rationale D", "Rationale E", "Rationale F", "Topic",
      "CLF-002-Knowledge-Skills",
      IF v = "lambda_function" THEN "CLF-002-Tagging System"
      ELSE "CLF-002-Tagging-System">>

\* the columns in the order the dict literal reads them
ColumnsRead(v) == RequiredColumns \o OptionalColumns(v)

FieldsWritten == RequiredColumns \o OptionalFields

\* str(cell): a text as it is, an empty cell (NaN) as 'nan', a number as
\* its digits
StrOf(cell) ==
    IF cell.t = "str" THEN cell.s
    ELSE IF cell.t = "nan" THEN <<"n", "a", "n">>
    ELSE cell.digits

\* row.get(column, ''), then str()
RowGet(r, column) ==
    IF column \in DOMAIN r THEN StrOf(r[column]) ELSE <<>>

\* the first column of a sequence that the row does not have
FirstAbsent(r, columns) ==
    columns[CHOOSE i \in DOMAIN columns :
                /\ columns[i] \notin DOMAIN r
                /\ \A j \in 1..(i - 1) : columns[j] \in DOMAIN r]

\* the item built from a row: each field is str() of its column
ItemOf(v, r, now) ==
    [f \in SeqSet(FieldsWritten) \cup {"ProcessedAt"} |->
        IF f = "ProcessedAt" THEN now
        ELSE RowGet(r, ColumnsRead(v)[CHOOSE i \in DOMAIN FieldsWritten :
                                          FieldsWritten[i] = f])]

\* process_csv_row: row['...'] raises KeyError for an absent column; the
\* first variant reads every column that way, the second only the
\* required ones and wraps the error
ProcessCsvRow(v, r, now) ==
    LET must == IF v = "lambda_function" THEN ColumnsRead(v)
                ELSE RequiredColumns
    IN  IF \E i \in DOMAIN must : must[i] \notin DOMAIN r
        THEN IF v = "lambda_function"
             THEN Raise(<<"KeyError", FirstAbsent(r, must)>>)
             ELSE Raise(<<"Failed to process row: ", FirstAbsent(r, must)>>)
        ELSE Return(ItemOf(v, r, now))

\* the cells of a row: a text, an empty cell, a number
Cells == {[t |-> "str", s |-> <<"x">>], [t |-> "nan"]}

IdCell == [t |-> "int", digits |-> <<"7">>]

AllOptionalColumns ==
    SeqSet(OptionalColumns("lambda_function"))
        \cup SeqSet(OptionalColumns("s3-dynamodb"))

\* the column sets of a file: the required columns with all, none, all but
\* one or just one of the optional columns; or all but one required column
ColumnSets ==
    {SeqSet(RequiredColumns) \cup O :
        O \in {AllOptionalColumns, {}}
              \cup {AllOptionalColumns \ {c} : c \in AllOptionalColumns}
              \cup {{c} : c \in AllOptionalColumns}}
    \cup {(SeqSet(RequiredColumns) \ {c}) \cup AllOptionalColumns :
              c \in SeqSet(RequiredColumns)}

CsvRowsIn ==
    {[c \in S |-> IF c = "QuestionId" THEN IdCell ELSE cell] :
        S \in ColumnSets, cell \in Cells}

\* one call of process_csv_row
ProcessRow ==
    /\ csvItem = NoOutcome
    /\ csvItem' = ProcessCsvRow(variant, csvRow, clock)
    /\ UNCHANGED <<tableVars, cmpVars, valVars, batchVars, recVars, ioVars,
                   storeVars, variant, csvRow>>

InitCsv ==
    /\ sourceTable = <<>>
    /\ resultsTable = <<>>
    /\ CompareIdle
    /\ ValidateIdle
    /\ ReconcileIdle
    /\ BatchLoopIdle
    /\ env = [S3_BUCKET_NAME |-> TRUE, DYNAMODB_TABLE_NAME |-> TRUE]
    /\ pc = "done"
    /\ response = NoResponse
    /\ io = <<>>
    /\ event = <<>>
    /\ writers = <<>>
    /\ puts = <<>>
    /\ variant \in Variants
    /\ csvRow \in CsvRowsIn
    /\ csvItem = NoOutcome

NextCsv == ProcessRow

SpecCsv == InitCsv /\ [][NextCsv]_vars

(***************************************************************************)
(* The CSV-ingestion entry point (both variants): the configuration check  *)
(* at module load, then lambda_handler                                     *)
(***************************************************************************)
\* a storage event with a bucket/key reference, and events that lack it
S3Event == [Records |-> <<[s3 |-> [object |-> [key |-> "questions.csv"]]]>>]

IngestEvents ==
    {S3Event,
     <<>>,
     [Records |-> <<>>],
     [Records |-> <<[s3 |-> [bucket |-> [name |-> "b"]]]>>]}

\* event['Records'][0]['s3']['object']['key']
FileKey(e) ==
    IF "Records" \notin DOMAIN e THEN Raise("KeyError: 'Records'")
    ELSE IF e.Records = <<>> THEN Raise("IndexError: list index out of range")
    ELSE IF "s3" \notin DOMAIN e.Records[1] THEN Raise("KeyError: 's3'")
    ELSE IF "object" \notin DOMAIN e.Records[1].s3
    THEN Raise("KeyError: 'object'")
    ELSE IF "key" \notin DOMAIN e.Records[1].s3.object
    THEN Raise("KeyError: 'key'")
    ELSE Return(e.Records[1].s3.object.key)

DigitChars == <<"1", "2", "3", "4", "5", "6", "7", "8", "9">>

\* the column sets of the files: every column, no Notes column, only the
\* required columns, no Key column
FileColumns ==
    {SeqSet(RequiredColumns) \cup AllOptionalColumns,
     SeqSet(RequiredColumns) \cup (AllOptionalColumns \ {"Notes"}),
     SeqSet(RequiredColumns),
     (SeqSet(RequiredColumns) \ {"Key"}) \cup AllOptionalColumns}

\* the data frames pd.read_csv may return: up to NumIds rows over one
\* column set, row i being question i
DataFrames ==
    {[i \in 1..n |->
        [c \in S |-> IF c = "QuestionId"
                     THEN [t |-> "int", digits |-> <<DigitChars[i]>>]
                     ELSE cell]] :
        S \in FileColumns, n \in 0..NumIds, cell \in Cells}

\* the errors of read_csv_from_s3: of get_object, of decoding, of parsing
GetObjectErrors ==
    {"ClientError: NoSuchKey", "ClientError: AccessDenied",
     "UnicodeDecodeError", "EmptyDataError: No columns to parse from file"}

\* the 500 response of "except Exception"
IngestError(msg) ==
    [statusCode |-> 500,
     body |-> [message |-> "Error processing file", error |-> msg]]

\* items = [process_csv_row(row) for _, row in df.iterrows()]
RowOutcomes(v, df, now) == [i \in DOMAIN df |-> ProcessCsvRow(v, df[i], now)]

\* insert_to_dynamodb: put_item for each item in turn, counting the
\* failures; the table after the puts that returned
RECURSIVE InsertAll(_, _, _)
InsertAll(table, items, putOks) ==
    IF items = <<>> THEN table
    ELSE InsertAll(IF putOks[1] /\ items[1].QuestionId # <<>>
                   THEN PutItem(table, items[1])
                   ELSE table,
                   Tail(items), Tail(putOks))

Inserted(items, putOks) ==
    {i \in DOMAIN items : putOks[i] /\ items[i].QuestionId # <<>>}

\* loading the module: "if not S3_BUCKET_NAME: raise ValueError(...)"; the
\* invocation then ends with the error of the failed load and the handler
\* is never called
IngestLoad ==
    /\ pc = "csv_load"
    /\ IF ~env.S3_BUCKET_NAME
       THEN /\ response' =
                 [errorType |-> "ValueError",
                  errorMessage |->
                      "S3_BUCKET_NAME environment variable is not set"]
            /\ pc' = "done"
       ELSE IF ~env.DYNAMODB_TABLE_NAME
       THEN /\ response' =
                 [errorType |-> "ValueError",
                  errorMessage |->
                      "DYNAMODB_TABLE_NAME environment variable is not set"]
            /\ pc' = "done"
       ELSE /\ pc' = "csv_idle"
            /\ UNCHANGED response
    /\ UNCHANGED <<tableVars, cmpVars, valVars, env, BatchLoopVars, recVars,
                   ioVars, restVars>>

\* lambda_handler: the key of the event, the file, the rows, the inserts
IngestHandler ==
    /\ pc = "csv_idle"
    /\ pc' = "done"
    /\ IF FileKey(event).kind = "raise"
       THEN /\ response' = IngestError(FileKey(event).exc)
            /\ UNCHANGED <<sourceTable, io>>
       ELSE \/ \E e \in GetObjectErrors :
                  /\ io' = Append(io, Failed("get_object", e))
                  /\ response' = IngestError(e)
                  /\ UNCHANGED sourceTable
            \/ \E df \in DataFrames :
                  LET rows == RowOutcomes(variant, df, clock)
                  IN  IF \E i \in DOMAIN rows : rows[i].kind = "raise"
                      THEN /\ io' = Append(io, Call("get_object"))
                           /\ response' = IngestError(
                                 rows[CHOOSE i \in DOMAIN rows :
                                          rows[i].kind = "raise"].exc)
                           /\ UNCHANGED sourceTable
                      ELSE \E putOks \in [DOMAIN df -> BOOLEAN] :
                              LET items == [i \in DOMAIN rows |-> rows[i].value]
                              IN  /\ io' = <<Call("get_object")>>
                                        \o [i \in DOMAIN items |->
                                               PutCall(putOks[i])]
                                  /\ sourceTable' =
                                        InsertAll(sourceTable, items, putOks)
                                  /\ response' =
                                        [statusCode |-> 200,
                                         body |->
                                           [message |->
                                               "File processing completed",
                                            total_rows |-> Len(df),
                                            successful_inserts |->
                                               Cardinality(
                                                   Inserted(items, putOks)),
                                            failed_inserts |->
                                               Len(df) - Cardinality(
                                                   Inserted(items, putOks))]]
    /\ UNCHANGED <<resultsTable, cmpVars, valVars, env, BatchLoopVars,
                   recVars, event, restVars>>

InitIngest ==
    /\ sourceTable = <<>>
    /\ resultsTable = <<>>
    /\ CompareIdle
    /\ ValidateIdle
    /\ ReconcileIdle
    /\ BatchLoopIdle
    /\ env \in [S3_BUCKET_NAME : BOOLEAN, DYNAMODB_TABLE_NAME : BOOLEAN]
    /\ pc = "csv_load"
    /\ response = NoResponse
    /\ io = <<>>
    /\ event \in IngestEvents
    /\ writers = <<>>
    /\ puts = <<>>
    /\ variant \in Variants
    /\ csvRow = <<>>
    /\ csvItem = NoOutcome

NextIngest == IngestLoad \/ IngestHandler

SpecIngest == InitIngest /\ [][NextIngest]_vars

(***************************************************************************)
(* A validation batch followed by a reconciliation of its results table    *)
(***************************************************************************)
\* a question record as the ingestion stores it, with its answer Key
KeyedQuestion(q, key) ==
    LET question == Question(q, [k \in {"A", "B"} |-> <<"x">>])
    IN  [f \in DOMAIN question \cup {"Key"} |->
            IF f = "Key" THEN key ELSE question[f]]

KeyedQuestionTables ==
    {[q \in S |-> KeyedQuestion(q, <<"A">>)] : S \in SUBSET QuestionIds}

\* after the batch has returned, the reconciliation handler is invoked on
\* the same two tables
InvokeReconcile ==
    /\ pc = "done"
    /\ "TABLE_NAME" \in DOMAIN env
    /\ env' = [SOURCE_TABLE |-> TRUE, RESULTS_TABLE |-> TRUE,
               OUTPUT_BUCKET |-> TRUE]
    /\ pc' = "rec_idle"
    /\ response' = NoResponse
    /\ io' = <<>>
    /\ UNCHANGED <<tableVars, cmpVars, valVars, BatchLoopVars, recVars,
                   event, restVars>>

InitPipeline ==
    /\ sourceTable \in KeyedQuestionTables
    /\ resultsTable = <<>>
    /\ CompareIdle
    /\ ValidateIdle
    /\ ReconcileIdle
    /\ env = [TABLE_NAME |-> TRUE, LLM_RESULTS_TABLE |-> TRUE]
    /\ pc = "idle"
    /\ BatchLoopIdle
    /\ response = NoResponse
    /\ io = <<>>
    /\ RestIdle
    /\ event = <<>>

NextPipeline == Next \/ InvokeReconcile \/ NextReconcile

SpecPipeline == InitPipeline /\ [][NextPipeline]_vars

(***************************************************************************)
(* Properties of compare_tables                                            *)
(***************************************************************************)
NoDup(s) == Cardinality(SeqSet(s)) = Len(s)

DetailIds == {cmpResult.comparison_details[i].questionid :
                 i \in DOMAIN cmpResult.comparison_details}

DetailOf(q) ==
    cmpResult.comparison_details[
        CHOOSE i \in DOMAIN cmpResult.comparison_details :
            cmpResult.comparison_details[i].questionid = q]

InBoth == DOMAIN sourceTable \cap DOMAIN resultsTable

\* the raw comparison fields of the stored records ('' when absent)
RawKey(q) == Get(sourceTable[q], "Key", <<>>)

RawOption(q) == Get(resultsTable[q], "CorrectOption", <<>>)

\* a and b are equal up to letter case once some surrounding whitespace is
\* taken off each of them
DifferOnlyInCaseOrPadding(a, b) ==
    \E la \in 0..Len(a), lb \in 0..Len(b) :
      \E ra \in 0..(Len(a) - la), rb \in 0..(Len(b) - lb) :
        /\ \A i \in 1..la : a[i] \in Whitespace
        /\ \A i \in (Len(a) - ra + 1)..Len(a) : a[i] \in Whitespace
        /\ \A i \in 1..lb : b[i] \in Whitespace
        /\ \A i \in (Len(b) - rb + 1)..Len(b) : b[i] \in Whitespace
        /\ Len(a) - la - ra = Len(b) - lb - rb
        /\ \A i \in 1..(Len(a) - la - ra) :
              UpperChar(a[la + i]) = UpperChar(b[lb + i])

\* the part of a comma-separated list before its first comma
FirstEntry(c) ==
    LET n == CHOOSE k \in 0..Len(c) :
                /\ \A i \in 1..k : c[i] # ","
                /\ (k = Len(c) \/ c[k + 1] = ",")
    IN  SubSeq(c, 1, n)

OnlySpaces(s) == \A i \in DOMAIN s : s[i] \in Whitespace

\* C1: every QuestionId of the union of the two key sets is in exactly one
\* category, fixed by membership: both -> one comparison_details entry, only
\* source -> missing_from_table2, only candidate -> missing_from_table1;
\* nothing duplicated, omitted or invented; the counts agree with the lists;
\* disjoint key sets give no matched/mismatched outcome.
C1_Partition ==
    cmpDone =>
        /\ DetailIds = InBoth
        /\ Len(cmpResult.comparison_details) = Cardinality(InBoth)
        /\ SeqSet(cmpResult.missing_from_table2)
              = DOMAIN sourceTable \ DOMAIN resultsTable
        /\ NoDup(cmpResult.missing_from_table2)
        /\ SeqSet(cmpResult.missing_from_table1)
              = DOMAIN resultsTable \ DOMAIN sourceTable
        /\ NoDup(cmpResult.missing_from_table1)
        /\ NoDup(cmpResult.mismatched_ids)
        /\ SeqSet(cmpResult.mismatched_ids)
              = {q \in InBoth : ~DetailOf(q).matches}
        /\ cmpResult.mismatches = Len(cmpResult.mismatched_ids)
        /\ cmpResult.matches
              = Cardinality({q \in InBoth : DetailOf(q).matches})
        /\ (InBoth = {} =>
              /\ cmpResult.matches = 0
              /\ cmpResult.mismatches = 0
              /\ cmpResult.comparison_details = <<>>)

\* a run with an id in both tables and an id only in the source
C1_Witness ==
    /\ cmpDone
    /\ InBoth # {}
    /\ DOMAIN sourceTable \ DOMAIN resultsTable # {}
    /\ cmpResult.missing_from_table2 # <<>>

\* C2 as stated: whenever the stored Key and the stored CorrectOption differ
\* only in letter case or surrounding whitespace, the id is matched.
C2_RawValuesMatched ==
    cmpDone =>
        \A q \in InBoth :
            DifferOnlyInCaseOrPadding(RawKey(q), RawOption(q)) =>
                /\ DetailOf(q).matches
                /\ q \notin SeqSet(cmpResult.mismatched_ids)

\* C2 (amended): whenever the stored Key and the first comma-separated entry
\* of the stored CorrectOption differ only in letter case or surrounding
\* whitespace, the id is matched: matches flag true, counted in matches, not
\* in mismatched_ids.
C2_FirstEntryMatched ==
    cmpDone =>
        \A q \in InBoth :
            DifferOnlyInCaseOrPadding(RawKey(q), FirstEntry(RawOption(q))) =>
                /\ DetailOf(q).matches
                /\ q \notin SeqSet(cmpResult.mismatched_ids)
                /\ cmpResult.matches
                      = Cardinality({r \in InBoth : DetailOf(r).matches})
                /\ cmpResult.matches >= 1

\* Key " b" against CorrectOption "B " : case and padding differ, matched
C2_Witness ==
    /\ cmpDone
    /\ 1 \in InBoth
    /\ RawKey(1) = <<" ", "b">>
    /\ RawOption(1) = <<"B", " ">>
    /\ DetailOf(1).matches

\* C3: only the first entry of a comma-separated CorrectOption is compared
\* (trimmed, upper-cased) with the Key; table2_all_options is empty when the
\* outcome is matched and is the full unnormalized CorrectOption when it is
\* mismatched.
C3_FirstEntryAndDiagnostic ==
    cmpDone =>
        \A q \in InBoth :
            /\ DetailOf(q).matches
                  <=> DifferOnlyInCaseOrPadding(RawKey(q),
                                                FirstEntry(RawOption(q)))
            /\ DetailOf(q).matches
                  => DetailOf(q).table2_all_options = <<>>
            /\ ~DetailOf(q).matches
                  => DetailOf(q).table2_all_options = RawOption(q)

\* candidate "B,C" against source "b": matched, diagnostic field empty
C3_Witness ==
    /\ cmpDone
    /\ 1 \in InBoth
    /\ RawKey(1) = <<"b">>
    /\ RawOption(1) = <<"B", ",", "C">>
    /\ DetailOf(1).matches
    /\ DetailOf(1).table2_all_options = <<>>

\* C4 as stated: a stored record with an empty or absent comparison field is
\* never missing, and it is mismatched whenever the counterpart's stored
\* field is a non-empty string.
C4_RawCounterpart ==
    cmpDone =>
        /\ \A q \in DOMAIN sourceTable :
              RawKey(q) = <<>> =>
                /\ q \notin SeqSet(cmpResult.missing_from_table1)
                /\ (q \in DOMAIN resultsTable /\ RawOption(q) # <<>>
                      => ~DetailOf(q).matches)
        /\ \A q \in DOMAIN resultsTable :
              RawOption(q) = <<>> =>
                /\ q \notin SeqSet(cmpResult.missing_from_table2)
                /\ (q \in DOMAIN sourceTable /\ RawKey(q) # <<>>
                      => ~DetailOf(q).matches)

\* C4 (amended): a stored record with an empty or absent comparison field is
\* present with comparison value '': it is never listed as missing (it is
\* compared when the other table has the id), and the outcome is mismatched
\* whenever the counterpart's comparison value - the Key trimmed, or the
\* first comma-separated entry of CorrectOption trimmed - is non-empty.
C4_EmptyIsPresent ==
    cmpDone =>
        /\ \A q \in DOMAIN sourceTable :
              RawKey(q) = <<>> =>
                /\ q \notin SeqSet(cmpResult.missing_from_table1)
                /\ q \in DOMAIN resultsTable =>
                      /\ q \in DetailIds
                      /\ q \notin SeqSet(cmpResult.missing_from_table2)
                      /\ DetailOf(q).table1_key = <<>>
                      /\ (~OnlySpaces(FirstEntry(RawOption(q)))
                            => ~DetailOf(q).matches)
        /\ \A q \in DOMAIN resultsTable :
              RawOption(q) = <<>> =>
                /\ q \notin SeqSet(cmpResult.missing_from_table2)
                /\ q \in DOMAIN sourceTable =>
                      /\ q \in DetailIds
                      /\ q \notin SeqSet(cmpResult.missing_from_table1)
                      /\ DetailOf(q).table2_correctoption = <<>>
                      /\ (~OnlySpaces(RawKey(q)) => ~DetailOf(q).matches)

\* a source record without Key against a candidate "A", next to an id that
\* really is missing from the candidate
C4_Witness ==
    /\ cmpDone
    /\ \E q \in InBoth :
          /\ "Key" \notin DOMAIN sourceTable[q]
          /\ RawOption(q) = <<"A">>
          /\ ~DetailOf(q).matches
    /\ cmpResult.missing_from_table2 # <<>>

(***************************************************************************)
(* Properties of validate_question                                         *)
(***************************************************************************)
\* the string member of a result's validation object
Field(result, name) == result.validation.m[<<name>>]

IsObjectWith(result, name) ==
    /\ "validation" \in DOMAIN result
    /\ result.validation.t = "obj"
    /\ <<name>> \in DOMAIN result.validation.m
    /\ Field(result, name).t = "str"

\* C5: whatever the model call does (transport exception, malformed
\* envelope, non-JSON text, JSON that is no object, object missing fields,
\* valid object), validate_question returns one result whose status is
\* success or error for the question it was given, and raises nothing.
C5_AlwaysOneResult ==
    vdone =>
        /\ vout.kind = "return"
        /\ vout.value.status \in {"success", "error"}
        /\ vout.value.questionId = vq.QuestionId

\* the model answered the JSON number 5: "field in 5" raises TypeError,
\* which ends as an error result
C5_Witness ==
    /\ vdone
    /\ vllm = TextReply(<<"5">>)
    /\ vout.kind = "return"
    /\ vout.value.status = "error"

\* the replies made of a leading ```json fence, a complete object and a
\* trailing ``` fence, with optional whitespace around each part
FencedObject(text, co, ex) ==
    \E pad \in Pads : text = Wrap("json", ObjectText(FieldSet, co, ex), pad)

\* C7: a complete object between a leading ```json fence and a trailing ```
\* fence gives status success with the object's own fields as validation.
C7_FencedObjectSucceeds ==
    (vdone /\ vllm.kind = "text") =>
        \A co \in Options, ex \in Explanations :
            FencedObject(vllm.text, co, ex) =>
                /\ vout.kind = "return"
                /\ vout.value.status = "success"
                /\ IsObjectWith(vout.value, "correct_option")
                /\ Field(vout.value, "correct_option").s = co
                /\ IsObjectWith(vout.value, "explanation")
                /\ Field(vout.value, "explanation").s = ex
                /\ IsObjectWith(vout.value, "confidence")
                /\ Field(vout.value, "confidence").s = <<"HIGH">>

\* what the code does reach of C7: the same, for objects whose text holds
\* no backtick fence of its own
FencedPlainObjectSucceeds ==
    (vdone /\ vllm.kind = "text") =>
        \A co \in Options, ex \in Explanations :
            (FencedObject(vllm.text, co, ex) /\ Find(ex, Fence) = 0) =>
                /\ vout.value.status = "success"
                /\ IsObjectWith(vout.value, "correct_option")
                /\ Field(vout.value, "correct_option").s = co
                /\ Field(vout.value, "explanation").s = ex

\* C8: a raw output that is no JSON once the fences are stripped gives
\* status error, correct_option ERROR and a non-empty explanation that
\* names the parse failure.
C8_UnparseableIsError ==
    (vdone /\ vllm.kind = "text" /\ ~JsonLoads(CleanText(vllm.text)).ok) =>
        /\ vout.kind = "return"
        /\ vout.value.status = "error"
        /\ IsObjectWith(vout.value, "correct_option")
        /\ Field(vout.value, "correct_option").s = <<"ERROR">>
        /\ IsObjectWith(vout.value, "explanation")
        /\ Field(vout.value, "explanation").s # <<>>
        /\ Head(Field(vout.value, "explanation").s)
              = "Failed to parse response: "

\* "I think A"
C8_Witness ==
    /\ vdone
    /\ vllm = TextReply(<<"I", " ", "think", " ", "A">>)
    /\ vout.value.status = "error"
    /\ Field(vout.value, "correct_option").s = <<"ERROR">>

\* the text of option k of the question under validation ('' when absent)
OptionText(k) == Get(vq, ResponseField(k), <<>>)

\* nan in any letter case
IsSentinel(v) ==
    /\ Len(v) = 3
    /\ v[1] \in {"n", "N"}
    /\ v[2] \in {"a", "A"}
    /\ v[3] \in {"n", "N"}

\* the positions in A..F of the active options
ActiveSet ==
    {i \in DOMAIN Letters :
        /\ \E j \in DOMAIN OptionText(Letters[i]) :
              OptionText(Letters[i])[j] \notin Whitespace
        /\ ~IsSentinel(OptionText(Letters[i]))}

\* the part of the prompt between "Options:" and the format instruction
OptionsBlock ==
    SubSeq(vprompt, Len(Get(vq, "Question", <<>>)) + 3, Len(vprompt) - 1)

\* C9: the prompt lists exactly the options A..F whose text is non-empty,
\* not whitespace-only and not nan in any letter case, one per line as
\* "<letter>) <text>", in the order A..F; an excluded option has no line
\* and its label appears nowhere in the prompt.
C9_ActiveOptionsRendered ==
    vdone =>
        LET lines == Split(OptionsBlock, <<"\n">>)
            Rank(i) == Cardinality({j \in ActiveSet : j <= i})
        IN  /\ vprompt[1] = PromptHead
            /\ vprompt[Len(Get(vq, "Question", <<>>)) + 2] = PromptOptions
            /\ vprompt[Len(vprompt)] = PromptTail
            /\ (ActiveSet = {} => OptionsBlock = <<>>)
            /\ (ActiveSet # {} => Len(lines) = Cardinality(ActiveSet))
            /\ \A i \in ActiveSet :
                  lines[Rank(i)]
                      = <<Letters[i], ")", " ">> \o OptionText(Letters[i])
            /\ \A i \in DOMAIN Letters \ ActiveSet :
                  Find(vprompt, <<Letters[i], ")">>) = 0

\* ResponseB is NaN: the prompt lists A, C, D, E, F
C9_Witness ==
    /\ vdone
    /\ OptionText("B") = <<"N", "a", "N">>
    /\ OptionsBlock = <<"A", ")", " ", "x", "\n", "C", ")", " ", "x", "\n",
                        "D", ")", " ", "x", "\n", "E", ")", " ", "x", "\n",
                        "F", ")", " ", "x">>

(***************************************************************************)
(* Properties of the batch handler                                         *)
(***************************************************************************)
\* the replies that are a failed call or an unusable output: the call or
\* the envelope raised, the text is no JSON, or it is a JSON number, null,
\* boolean, or an object that lacks a required field
ReplyFails(llm) ==
    \/ llm.kind # "text"
    \/ ~JsonLoads(CleanText(llm.text)).ok
    \/ JsonLoads(CleanText(llm.text)).val.t \notin Containers
    \/ /\ JsonLoads(CleanText(llm.text)).val.t = "obj"
       /\ \E f \in FieldSet :
             <<f>> \notin DOMAIN JsonLoads(CleanText(llm.text)).val.m

\* C6: once the scan has returned N records the handler ends with a 200
\* response whose validation_results has N entries, entry i for record i;
\* a failed or unusable model call shows only as a status=error entry.
C6_BatchYieldsNResults ==
    /\ pc = "loop" =>
          /\ Len(validation_results) <= Len(questions)
          /\ response = NoResponse
    /\ (pc = "done" /\ response.statusCode = 500) =>
          response.error \in ScanErrors
    /\ (pc = "done" /\ response.statusCode = 200) =>
          /\ Len(response.validation_results) = Len(questions)
          /\ response.total_questions = Len(questions)
          /\ \A i \in DOMAIN questions :
                /\ response.validation_results[i].questionId
                      = questions[i].QuestionId
                /\ response.validation_results[i].status
                      \in {"success", "error"}
                /\ ReplyFails(replies[i].llm)
                      => response.validation_results[i].status = "error"

\* two records, the first model call raised, the second gave prose
C6_Witness ==
    /\ pc = "done"
    /\ response.statusCode = 200
    /\ Len(questions) = 2
    /\ Len(response.validation_results) = 2
    /\ replies[1].llm.kind = "invoke_raises"
    /\ replies[2].llm = TextReply(<<"I", " ", "think", " ", "A">>)

\* C10: when invoke_model raises, the result for that question and the
\* record stored for it have status error, correct option ERROR and an
\* explanation that carries the failure description.
C10_InvokeFailureRecorded ==
    \A i \in DOMAIN validation_results :
        replies[i].llm.kind = "invoke_raises" =>
            /\ validation_results[i].status = "error"
            /\ IsObjectWith(validation_results[i], "correct_option")
            /\ Field(validation_results[i], "correct_option").s = <<"ERROR">>
            /\ IsObjectWith(validation_results[i], "explanation")
            /\ Find(Field(validation_results[i], "explanation").s,
                    <<replies[i].llm.msg>>) # 0
            /\ replies[i].putOk =>
                  LET item == resultsTable[validation_results[i].questionId]
                  IN  /\ item.ValidationStatus = "error"
                      /\ item.CorrectOption = <<"ERROR">>
                      /\ Find(item.Explanation, <<replies[i].llm.msg>>) # 0

\* what the code does for C10: the result carries status error and the
\* failure description under "error", has no validation, and the stored
\* record gets the defaults UNKNOWN / '' / LOW
InvokeFailureAsCoded ==
    \A i \in DOMAIN validation_results :
        replies[i].llm.kind = "invoke_raises" =>
            /\ validation_results[i].status = "error"
            /\ "validation" \notin DOMAIN validation_results[i]
            /\ validation_results[i].error = replies[i].llm.msg
            /\ replies[i].putOk =>
                  LET item == resultsTable[validation_results[i].questionId]
                  IN  /\ item.ValidationStatus = "error"
                      /\ item.CorrectOption = <<"UNKNOWN">>
                      /\ item.Explanation = <<>>

(***************************************************************************)
(* Schema validation and persistence in the batch                          *)
(***************************************************************************)
\* what json.loads made of the cleaned text of a reply
Parsed(llm) == JsonLoads(CleanText(llm.text))

\* C11: validate_question returns status success only if the parsed output
\* is a JSON object with the keys correct_option, explanation and
\* confidence; a parsed array, string, number, boolean or null gives
\* status error.
C11_SuccessOnlyForMapping ==
    (vdone /\ vllm.kind = "text") =>
        /\ vout.kind = "return"
        /\ vout.value.status = "success" =>
              /\ Parsed(vllm).ok
              /\ Parsed(vllm).val.t = "obj"
              /\ \A f \in FieldSet : <<f>> \in DOMAIN Parsed(vllm).val.m
        /\ (Parsed(vllm).ok /\ Parsed(vllm).val.t # "obj") =>
              vout.value.status = "error"

\* what the code does for C11: success also for an array that has the three
\* names as elements and for a string that has them as substrings
SuccessAsCoded ==
    (vdone /\ vllm.kind = "text") =>
        /\ vout.kind = "return"
        /\ vout.value.status = "success" <=>
              /\ Parsed(vllm).ok
              /\ Parsed(vllm).val.t \in Containers
              /\ HasRequiredFields(Parsed(vllm).val)

\* the put of record i succeeded: the item was prepared and put_item
\* returned
PutSucceeded(i) ==
    /\ replies[i].putOk
    /\ \/ "validation" \notin DOMAIN validation_results[i]
       \/ validation_results[i].validation.t = "obj"

\* C12: a failed write does not stop the batch: every record is still
\* validated and storage_results has one entry per record, in order, whose
\* stored flag is true exactly when the put of that record succeeded, in
\* which case the results table holds the record written at that step.
C12_WriteFailureDoesNotStop ==
    /\ pc \in {"loop", "done"} =>
          /\ Len(storage_results) = Len(validation_results)
          /\ Len(replies) = Len(validation_results)
          /\ \A i \in DOMAIN storage_results :
                /\ storage_results[i].questionId = questions[i].QuestionId
                /\ storage_results[i].stored = PutSucceeded(i)
                /\ ~replies[i].putOk => ~storage_results[i].stored
                /\ storage_results[i].stored <=>
                      /\ questions[i].QuestionId \in DOMAIN resultsTable
                      /\ resultsTable[questions[i].QuestionId].ProcessedAt
                            = i - 1
    /\ (pc = "done" /\ \E i \in DOMAIN storage_results :
                            ~storage_results[i].stored) =>
          /\ response.statusCode = 200
          /\ Len(response.storage_results) = Len(questions)
          /\ Len(response.validation_results) = Len(questions)

\* two records: the put of the first failed, the second was validated and
\* stored
C12_Witness ==
    /\ pc = "done"
    /\ response.statusCode = 200
    /\ Len(questions) = 2
    /\ ~replies[1].putOk
    /\ ~response.storage_results[1].stored
    /\ response.validation_results[2].status = "success"
    /\ response.storage_results[2].stored
    /\ questions[2].QuestionId \in DOMAIN resultsTable

(***************************************************************************)
(* Properties of the handlers                                              *)
(***************************************************************************)
\* which handler the invocation runs, by the environment it reads
Handler ==
    IF "TABLE_NAME" \in DOMAIN env THEN "batch"
    ELSE IF "SOURCE_TABLE" \in DOMAIN env THEN "reconcile"
    ELSE "prompt"

\* a required environment variable or input parameter is missing
MissingConfig ==
    \/ /\ Handler = "batch"
       /\ ~env.TABLE_NAME \/ ~env.LLM_RESULTS_TABLE
    \/ /\ Handler = "reconcile"
       /\ ~env.SOURCE_TABLE \/ ~env.RESULTS_TABLE \/ ~env.OUTPUT_BUCKET
    \/ /\ Handler = "prompt"
       /\ "prompt" \notin DOMAIN event

Ops == {io[i].op : i \in DOMAIN io}

HasMessageAndError ==
    /\ "message" \in DOMAIN response
    /\ "error" \in DOMAIN response
    /\ response.message # ""
    /\ response.error # ""

\* C13: in the reconciliation, batch and single-prompt handlers a missing
\* environment variable or a missing 'prompt' gives a 400 response with a
\* message and an error, and the invocation made no scan, no table write,
\* no object-store write and no model call.
C13_MissingConfigIs400 ==
    MissingConfig =>
        /\ io = <<>>
        /\ questions = <<>> /\ validation_results = <<>>
        /\ sourceItems = <<>> /\ resultsItems = <<>>
        /\ bucket = {}
        /\ pc \in {"idle", "rec_idle", "prompt_idle", "done"}
        /\ pc = "done" =>
              /\ response.statusCode = 400
              /\ HasMessageAndError

\* the reconciliation handler has ended without OUTPUT_BUCKET, both tables
\* holding records
C13_Witness ==
    /\ Handler = "reconcile"
    /\ env.SOURCE_TABLE /\ env.RESULTS_TABLE /\ ~env.OUTPUT_BUCKET
    /\ sourceTable # <<>> /\ resultsTable # <<>>
    /\ pc = "done"
    /\ response.statusCode = 400

\* the scans that raised
FailedScans == {i \in DOMAIN io : io[i].op = "scan" /\ io[i].error # ""}

\* C19: when a scan of a table fails the invocation ends with a 500
\* response carrying a message and the error of the scan and no results;
\* the batch made no model call and no write to the results table, the
\* reconciliation wrote no report.
C19_ScanFailureIs500 ==
    FailedScans # {} =>
        /\ pc = "done"
        /\ response.statusCode = 500
        /\ HasMessageAndError
        /\ \E i \in FailedScans : i = Len(io) /\ response.error = io[i].error
        /\ DOMAIN response = {"statusCode", "message", "error"}
        /\ Ops = {"scan"}
        /\ Handler = "batch" =>
              /\ validation_results = <<>>
              /\ storage_results = <<>>
              /\ resultsTable = <<>>
        /\ Handler = "reconcile" =>
              /\ bucket = {}
              /\ output = <<>>

\* the reconciliation scanned the source table and the scan of the
\* results table raised
C19_Witness ==
    /\ Handler = "reconcile"
    /\ Len(io) = 2
    /\ io[1] = Call("scan")
    /\ io[2].op = "scan" /\ io[2].error # ""
    /\ sourceItems # <<>>
    /\ pc = "done"
    /\ response.statusCode = 500

(***************************************************************************)
(* Properties of concurrent writes                                         *)
(***************************************************************************)
\* the positions in puts of the items written for an id
PutsFor(q) == {i \in DOMAIN puts : puts[i].QuestionId = q}

Last(S) == CHOOSE i \in S : \A j \in S : j <= i

\* C14: after any interleaving of successful writes of concurrent
\* invocations the results table holds, for every QuestionId, no record if
\* nothing was put for it and otherwise exactly the item of the most
\* recent put for it; records are filed under their own QuestionId.
C14_LastWriteWins ==
    /\ \A q \in DOMAIN resultsTable : resultsTable[q].QuestionId = q
    /\ \A q \in QuestionIds :
          IF PutsFor(q) = {}
          THEN q \notin DOMAIN resultsTable
          ELSE /\ q \in DOMAIN resultsTable
               /\ resultsTable[q] = puts[Last(PutsFor(q))]

\* both invocations stored a result for question 1, the earlier one an
\* answer and the later one a failed call, and a record of question 2 was
\* put in between
C14_Witness ==
    /\ Len(puts) >= 3
    /\ puts[1].QuestionId = 1 /\ puts[1].ValidationStatus = "success"
    /\ puts[2].QuestionId = 2
    /\ puts[3].QuestionId = 1 /\ puts[3].ValidationStatus = "error"
    /\ resultsTable[1].CorrectOption = <<"UNKNOWN">>
    /\ resultsTable[2] = puts[2]

(***************************************************************************)
(* Properties of the export and of the coverage of a run                   *)
(***************************************************************************)
\* the rows after the header: first those of comparison_details, then the
\* synthetic ones of missing_from_table1, then those of missing_from_table2
NumDetails == Len(comparison_results.comparison_details)

NumMissing1 == Len(comparison_results.missing_from_table1)

NumMissing2 == Len(comparison_results.missing_from_table2)

Missing1Row(i) == output[1 + NumDetails + i]

Missing2Row(i) == output[1 + NumDetails + NumMissing1 + i]

\* C15: the export has, after the header, one row per comparison detail
\* and one synthetic row per missing identifier, and every row has a value
\* for each of the six header columns: a synthetic row holds the
\* MISSING/EXISTS pair in the value columns and its 'Missing from ...'
\* status in the Status column.
C15_ExportRowsComplete ==
    output # <<>> =>
        /\ Len(output) = 1 + NumDetails + NumMissing1 + NumMissing2
        /\ output[1] = CsvHeader
        /\ \A i \in DOMAIN output : Len(output[i]) = Len(CsvHeader)
        /\ \A i \in 1..NumMissing1 :
              /\ Missing1Row(i)[1] = comparison_results.missing_from_table1[i]
              /\ Missing1Row(i)[3] = "MISSING"
              /\ Missing1Row(i)[4] = "EXISTS"
              /\ Missing1Row(i)[6] = "Missing from Table 1"
        /\ \A i \in 1..NumMissing2 :
              /\ Missing2Row(i)[1] = comparison_results.missing_from_table2[i]
              /\ Missing2Row(i)[3] = "EXISTS"
              /\ Missing2Row(i)[4] = "MISSING"
              /\ Missing2Row(i)[6] = "Missing from Table 2"

\* what the code does for C15: the row count is as stated and the detail
\* rows have six cells, but a synthetic row has five, its status standing
\* in the Table2_All_Options column and its Status column missing
ExportAsCoded ==
    output # <<>> =>
        /\ Len(output) = 1 + NumDetails + NumMissing1 + NumMissing2
        /\ output[1] = CsvHeader
        /\ \A i \in 1..NumDetails :
              /\ Len(output[1 + i]) = 6
              /\ output[1 + i][6] \in {"Match", "Mismatch"}
        /\ \A i \in 1..NumMissing1 :
              /\ Len(Missing1Row(i)) = 5
              /\ Missing1Row(i)[3] = "MISSING"
              /\ Missing1Row(i)[4] = "EXISTS"
              /\ Missing1Row(i)[5] = "Missing from Table 1"
        /\ \A i \in 1..NumMissing2 :
              /\ Len(Missing2Row(i)) = 5
              /\ Missing2Row(i)[3] = "EXISTS"
              /\ Missing2Row(i)[4] = "MISSING"
              /\ Missing2Row(i)[5] = "Missing from Table 2"

\* the identifiers a report covers
Covered(results) ==
    SeqSet(results.missing_from_table1)
    \cup SeqSet(results.missing_from_table2)
    \cup {results.comparison_details[i].questionid :
            i \in DOMAIN results.comparison_details}

\* C18: a run that returns 200 has covered the whole input: the
\* reconciliation has an outcome for every identifier stored in either
\* table, the batch a result for every question stored in the source
\* table, also when a scan is delivered in more than one page.
C18_RunCoversWholeInput ==
    (pc = "done" /\ response.statusCode = 200) =>
        /\ Handler = "reconcile" =>
              Covered(response.results)
                  = DOMAIN sourceTable \cup DOMAIN resultsTable
        /\ Handler = "batch" =>
              {response.validation_results[i].questionId :
                    i \in DOMAIN response.validation_results}
                  = DOMAIN sourceTable

\* what the code does for C18: a run that returns 200 has covered the
\* items of the first page of each scan
RunCoversFirstPages ==
    (pc = "done" /\ response.statusCode = 200) =>
        /\ Handler = "reconcile" =>
              Covered(response.results)
                  = DOMAIN ById(sourceItems) \cup DOMAIN ById(resultsItems)
        /\ Handler = "batch" =>
              /\ Len(response.validation_results) = Len(questions)
              /\ \A i \in DOMAIN questions :
                    response.validation_results[i].questionId
                        = questions[i].QuestionId

(***************************************************************************)
(* Properties of the error results and of fence stripping                  *)
(***************************************************************************)
\* the reply is text that parses as a JSON object lacking a required field
LacksField(llm) ==
    /\ llm.kind = "text"
    /\ Parsed(llm).ok
    /\ Parsed(llm).val.t = "obj"
    /\ \E f \in FieldSet : <<f>> \notin DOMAIN Parsed(llm).val.m

\* the explanation given for an unparseable output
ParseFailureText == Field(ParseErrorResult(Question(1, <<>>)), "explanation").s

Sentinels == {<<"ERROR">>, <<"UNKNOWN">>}

\* the result describes its failure, in its validation or under "error"
DescribesFailure(result) ==
    \/ /\ IsObjectWith(result, "explanation")
       /\ Field(result, "explanation").s \notin {<<>>, ParseFailureText}
       /\ IsObjectWith(result, "correct_option")
       /\ Field(result, "correct_option").s \in Sentinels
    \/ /\ "validation" \notin DOMAIN result
       /\ "error" \in DOMAIN result
       /\ result.error \notin {"", "JSONDecodeError"}

\* C16: an output that parses as an object lacking a required field gives
\* a result with status error that describes the failure, and the record
\* stored for it has status error, CorrectOption ERROR or UNKNOWN and an
\* explanation that describes the failure and is not the one of an
\* unparseable output; the batch goes on.
C16_MissingFieldRecorded ==
    /\ \A i \in DOMAIN validation_results :
          LacksField(replies[i].llm) =>
              /\ validation_results[i].status = "error"
              /\ DescribesFailure(validation_results[i])
              /\ storage_results[i].stored =>
                    LET item == resultsTable[validation_results[i].questionId]
                    IN  /\ item.ValidationStatus = "error"
                        /\ item.CorrectOption \in Sentinels
                        /\ item.Explanation \notin {<<>>, ParseFailureText}
    /\ (pc = "done" /\ response.statusCode = 500) =>
          response.error \in ScanErrors

\* what the code does for C16: the result has status error and the text
\* of the ValueError under "error", no validation, and the stored record
\* gets the defaults UNKNOWN and '' as CorrectOption and Explanation
MissingFieldAsCoded ==
    \A i \in DOMAIN validation_results :
        LacksField(replies[i].llm) =>
            /\ validation_results[i].status = "error"
            /\ "validation" \notin DOMAIN validation_results[i]
            /\ validation_results[i].error
                  = "Missing required fields in response"
            /\ storage_results[i].stored =>
                  LET item == resultsTable[validation_results[i].questionId]
                  IN  /\ item.ValidationStatus = "error"
                      /\ item.CorrectOption = <<"UNKNOWN">>
                      /\ item.Explanation = <<>>

\* the reply is the payload wrapped the way w, with some padding
Wrapped(text, w, body) == \E pad \in Pads : text = Wrap(w, body, pad)

\* the result is a success carrying the object's option and explanation
SucceedsWith(result, co, ex) ==
    /\ result.status = "success"
    /\ IsObjectWith(result, "correct_option")
    /\ Field(result, "correct_option").s = co
    /\ IsObjectWith(result, "explanation")
    /\ Field(result, "explanation").s = ex

\* C17: a valid three-field object gives status success with its fields
\* whether it comes with no fence, only a leading fence, only a trailing
\* fence or both fences, the leading one being ```json or a bare ```; an
\* output with an empty payload gives status error, not an exception.
C17_FencesStrippedIndependently ==
    (vdone /\ vllm.kind = "text") =>
        /\ vout.kind = "return"
        /\ \A w \in Wraps, co \in Options :
              Wrapped(vllm.text, w, ObjectText(FieldSet, co, <<"x">>))
                  => SucceedsWith(vout.value, co, <<"x">>)
        /\ \A w \in Wraps :
              Wrapped(vllm.text, w, <<>>) => vout.value.status = "error"

\* what the code does for C17: only a leading ```json is removed, so an
\* object between bare fences is cut to nothing and ends as a parse error
FencesAsCoded ==
    (vdone /\ vllm.kind = "text") =>
        /\ vout.kind = "return"
        /\ \A w \in Wraps \ {"bare"}, co \in Options :
              Wrapped(vllm.text, w, ObjectText(FieldSet, co, <<"x">>))
                  => SucceedsWith(vout.value, co, <<"x">>)
        /\ \A co \in Options :
              Wrapped(vllm.text, "bare", ObjectText(FieldSet, co, <<"x">>))
                  => /\ vout.value.status = "error"
                     /\ Field(vout.value, "correct_option").s = <<"ERROR">>
        /\ \A w \in Wraps :
              Wrapped(vllm.text, w, <<>>) => vout.value.status = "error"

(***************************************************************************)
(* Properties of process_csv_row                                           *)
(***************************************************************************)
\* the optional fields the interface names: Notes, Rationale,
\* Rationale A..F, Topic and the two classification columns
NamedOptional ==
    {i \in DOMAIN OptionalFields :
        OptionalFields[i] \in
            {"Notes", "Rationale", "RationaleA", "RationaleB", "RationaleC",
             "RationaleD", "RationaleE", "RationaleF", "Topic", "Knowledge",
             "Tag"}}

HasRequiredColumns == SeqSet(RequiredColumns) \subseteq DOMAIN csvRow

\* the row was converted and each named optional column it lacks is ''
AbsentOptionalIsEmpty ==
    /\ csvItem.kind = "return"
    /\ \A i \in NamedOptional :
          OptionalColumns(variant)[i] \notin DOMAIN csvRow
              => csvItem.value[OptionalFields[i]] = <<>>

\* C20: in each of the two ingestion variants a row that has the required
\* columns QuestionId, Type, Status, Question and Key is converted to a
\* record in which every absent optional column is the empty string; the
\* row does not fail.
C20_OptionalColumnsDefault ==
    (csvItem # NoOutcome /\ HasRequiredColumns) => AbsentOptionalIsEmpty

\* what the code does for C20: the s3-dynamodb variant defaults absent
\* optional columns to '', the other variant raises KeyError for the first
\* column of its list that the row lacks
OptionalColumnsAsCoded ==
    (csvItem # NoOutcome /\ HasRequiredColumns) =>
        IF variant = "s3-dynamodb"
        THEN AbsentOptionalIsEmpty
        ELSE IF SeqSet(ColumnsRead(variant)) \subseteq DOMAIN csvRow
        THEN csvItem.kind = "return"
        ELSE /\ csvItem.kind = "raise"
             /\ csvItem.exc[1] = "KeyError"
             /\ csvItem.exc[2] \notin DOMAIN csvRow

(***************************************************************************)
(* Properties of the CSV-ingestion entry point                             *)
(***************************************************************************)
\* the response has the shape {statusCode, body: {message, ...}}
HasResponseShape ==
    /\ "statusCode" \in DOMAIN response
    /\ "body" \in DOMAIN response
    /\ "message" \in DOMAIN response.body

\* required configuration or the event's bucket/key reference is missing
IngestInputMissing ==
    \/ ~env.S3_BUCKET_NAME
    \/ ~env.DYNAMODB_TABLE_NAME
    \/ FileKey(event).kind = "raise"

\* C21: the ingestion entry point answers every invocation with a
\* response {statusCode, body: {message, ...}}; the statusCode is 400 when
\* S3_BUCKET_NAME, DYNAMODB_TABLE_NAME or the bucket/key reference of the
\* event is missing, and 500 only for other failures.
C21_IngestResponses ==
    pc = "done" =>
        /\ HasResponseShape
        /\ IngestInputMissing => response.statusCode = 400
        /\ response.statusCode = 500 => ~IngestInputMissing

\* what the code does for C21: without configuration the module does not
\* load and the invocation ends with that error, no response; an event
\* without the reference ends in the 500 response of "except Exception";
\* no path returns 400
IngestAsCoded ==
    pc = "done" =>
        IF ~env.S3_BUCKET_NAME \/ ~env.DYNAMODB_TABLE_NAME
        THEN /\ "statusCode" \notin DOMAIN response
             /\ response.errorType = "ValueError"
             /\ io = <<>>
        ELSE /\ HasResponseShape
             /\ response.statusCode \in {200, 500}
             /\ FileKey(event).kind = "raise" =>
                   /\ response.statusCode = 500
                   /\ response.body.error = FileKey(event).exc
                   /\ io = <<>>

(***************************************************************************)
(* Properties of a batch followed by a reconciliation                      *)
(***************************************************************************)
\* the reconciliation that followed the batch has returned its report
Reconciled ==
    /\ pc = "done"
    /\ "SOURCE_TABLE" \in DOMAIN env
    /\ response.statusCode = 200

\* the report compares the identifier: it has a detail row for it
Compared(results, q) ==
    \E i \in DOMAIN results.comparison_details :
        results.comparison_details[i].questionid = q

\* both scans of the reconciliation returned their whole table
ScansComplete ==
    /\ Len(sourceItems) = Cardinality(DOMAIN sourceTable)
    /\ Len(resultsItems) = Cardinality(DOMAIN resultsTable)

\* record i of the batch was stored: what C22 says of its identifier
StoredIsCompared(i) ==
    LET q == storage_results[i].questionId
    IN  /\ q \notin SeqSet(response.results.missing_from_table2)
        /\ Compared(response.results, q)
        /\ validation_results[i].status = "error" =>
              resultsTable[q].CorrectOption \in Sentinels

\* C22: a question whose result the batch stored is never reported as
\* missing from the results table by a later reconciliation, also when
\* its validation ended with status error: its record then carries the
\* sentinel ERROR or UNKNOWN and the identifier is compared with the Key.
C22_StoredIsNeverMissing ==
    Reconciled =>
        \A i \in DOMAIN storage_results :
            storage_results[i].stored => StoredIsCompared(i)

\* what the code does for C22: the statement holds for the runs in which
\* each scan returned the whole table in its one page
StoredIsComparedWhenScansComplete ==
    (Reconciled /\ ScansComplete) =>
        \A i \in DOMAIN storage_results :
            storage_results[i].stored => StoredIsCompared(i)

====
